---- MODULE Spec2Model ----
(***************************************************************************)
(* Phantom Subtitle Translator: the batch translation pipeline.            *)
(*                                                                         *)
(*   Spec       one run of TranslationService.executeTranslationChain:     *)
(*              fetch, segment, chunks of concurrently running batches     *)
(*              joined by Promise.all, reassembly, saveFinalSrt.  A stage  *)
(*              call of a batch is one step (the backend's answer          *)
(*              arrives, is parsed and validated, the next stage is        *)
(*              issued).                                                   *)
(*   SpecRun    the same run with every backend attempt and every backoff   *)
(*              of every stage call a step of its own, over short          *)
(*              documents; SpecRunFair adds that every attempt, timer and  *)
(*              store call that is awaited ends.                           *)
(*   SpecFaults the run over documents of one chunk of several batches,    *)
(*              with the rejections of the batch promises recorded in the  *)
(*              order they happen.                                         *)
(*   SpecStage  one stage call (GeminiAgentService._callBatchAgent) step   *)
(*              by step: every backend attempt of callGemini, the          *)
(*              backoff, the parse and the validation.                     *)
(*   SpecSegment the batch loop of executeTranslationChain on its own,     *)
(*              iteration by iteration, for every document length.         *)
(*   SpecReassemble the reassembly of executeTranslationChain on its own,  *)
(*              for every small array of translated lines, holes and       *)
(*              short arrays included.                                     *)
(*   SpecPacing the pacing-sync stage (GeminiAgentService.phantomSync) over   *)
(*              lines that have a duration and texts that have a length.   *)
(*   SpecBackground  runInBackground under a caller that starts some       *)
(*              background tasks and returns, the tasks settling later.    *)
(*   SpecJob    the job record under the request handlers: one             *)
(*              generateTranslationBlueprint and some                      *)
(*              executeTranslationChain activations, interleaved at        *)
(*              their awaits; the chunk loop of a run is one step here.    *)
(*   SpecBlueprint  one generateTranslationBlueprint activation on its     *)
(*              own, with the glossary upsert it schedules.                *)
(*   SpecShutdown  the process under signals and uncaught errors, each     *)
(*              calling gracefulShutdown (server.js).                      *)
(*   SpecMongo  calls of connectToMongo and getDb, interleaved at the      *)
(*              await of client.connect() (config/database.js).            *)
(***************************************************************************)
EXTENDS Integers, Sequences, FiniteSets, TLC

VARIABLES
    config,               \* the validated environment (config/index.js)
    jobs,                 \* the translationJobs collection: job id -> document
    pc,                   \* where executeTranslationChain is
    job,                  \* executeTranslationChain: const job
    srtLines,             \* executeTranslationChain: const srtLines
    batches,              \* executeTranslationChain: const batches
    i,                    \* the chunk loop's index
    bstate,               \* one _processSingleBatch activation per batch
    values,               \* Promise.all's result array for the current chunk
    allTranslatedBatches, \* executeTranslationChain: const allTranslatedBatches
    translatedLines,      \* executeTranslationChain: const translatedLines
    outcome,              \* what executeTranslationChain returned or threw
    overtaken,            \* history: a batch returned while an earlier one still ran
    call,                 \* one _callBatchAgent activation (SpecStage)
    dbLog,                \* history: the repository calls that have settled, in order
                          \* (SpecMongo: the getDb calls)
    procs,                \* the request handlers' activations (SpecJob); those of
                          \* gracefulShutdown (SpecShutdown), of connectToMongo (SpecMongo)
    request,              \* the body of the executeTranslation request of the run
    tasks,                \* the promises runInBackground has made, in order
    logs,                 \* the entries runInBackground has written to its logger
    attempts,             \* per batch, the callGemini activation it awaits (SpecRun)
    rejections,           \* history: the batch promises that rejected, in time (SpecFaults)
    globals               \* the module-level variables of server.js and config/database.js

vars == <<config, jobs, pc, job, srtLines, batches, i, bstate, values,
          allTranslatedBatches, translatedLines, outcome, overtaken, call,
          dbLog, procs, request, tasks, logs, attempts, rejections, globals>>

chainVars == <<jobs, pc, job, srtLines, batches, i, bstate, values,
               allTranslatedBatches, translatedLines, outcome, overtaken,
               dbLog, procs, request, tasks, logs, rejections>>

-----------------------------------------------------------------------------
(* Program constants *)

BATCH_SIZE == 25
CONCURRENT_BATCHES == 4
DEFAULT_GEMINI_MAX_RETRIES == 3
DEFAULT_GEMINI_BACKOFF_MS == 1000
\* the reading pace, in characters per second, the prompt of phantomSync names
CPS_THRESHOLD == 22

(* Bounds of the model *)

\* the longest document: one line more than CONCURRENT_BATCHES full batches
MaxLines == 101

\* the longest document reassembled from arbitrary translated arrays
MaxReassembled == 3

\* the number of executeTranslation requests a job history holds
MaxRuns == 2

\* the longest batch the pacing-sync stage is checked with
MaxPaced == 2

\* the longest document of a run followed attempt by attempt: two batches
MaxRunLines == 26

\* the longest document of the runs with recorded rejections: three batches
MaxFaultLines == 51

\* the most cues of the subtitle a blueprint request brings
MaxJobCues == 5

\* the most terms of the glossary assembleBlueprint answers with
MaxGlossary == 2

\* the most shutdown events a process gets
MaxEvents == 3

\* the most calls of connectToMongo and of getDb in a process
MaxConnects == 3
MaxGets == 2

\* the number of background tasks one caller starts
MaxTasks == 3

\* the highest retry ceiling a stage call is checked under: one more than the
\* default, so that three backoffs in a row happen
MaxRetryCeiling == 4

DocSizes == {0, 10, 57, MaxLines}

Min(a, b) == IF a < b THEN a ELSE b

-----------------------------------------------------------------------------
(* JavaScript values *)

\* Subtitle texts are numbered: 0 is the empty string, n in 1..MaxLines the
\* source text of cue n, and Translation(a, n) what the a-th stage makes of cue n
EmptyString == 0

SourceText(n) == n

Translation(a, n) == a * (MaxLines + 1) + n

\* the stage a text comes from (0: none)
StageOf(text) == text \div (MaxLines + 1)

\* the cue a text belongs to
CueOf(text) == text % (MaxLines + 1)

\* an element of an array of texts that is undefined (a hole, or an index past
\* the end read by the caller)
UndefinedText == -1

\* '' and undefined are falsy, every other text is truthy
Falsy(v) == v \in {EmptyString, UndefinedText}

\* Array.prototype.slice(from, to) with 0 <= from <= to
\* a slice that takes the element at its end index too
Slice_inclusive(arr, from, to) == SubSeq(arr, from + 1, Min(to + 1, Len(arr)))

Slice(arr, from, to) == SubSeq(arr, from + 1, Min(to, Len(arr)))

RECURSIVE Flat(_)
\* Array.prototype.flat() of an array of arrays
Flat(arrs) == IF arrs = <<>> THEN <<>> ELSE Head(arrs) \o Flat(Tail(arrs))

-----------------------------------------------------------------------------
(* Errors (core/AppError.js) *)

EmptyContext == <<>>

ApiError(message, httpStatus, errorCode, context) ==
    [name |-> "ApiError", message |-> message, httpStatus |-> httpStatus,
     errorCode |-> errorCode, context |-> context, isOperational |-> TRUE]

NotFoundError(message) ==
    [ApiError(message, 404, "NOT_FOUND", EmptyContext) EXCEPT !.name = "NotFoundError"]

BadRequestError(message) ==
    [ApiError(message, 400, "BAD_REQUEST", EmptyContext) EXCEPT !.name = "BadRequestError"]

\* a native error thrown by the runtime: not an ApiError, not operational
TypeError(message) ==
    [name |-> "TypeError", message |-> message, httpStatus |-> 0,
     errorCode |-> "", context |-> EmptyContext, isOperational |-> FALSE]

Return(v) == [kind |-> "return", value |-> v]
Throw(e) == [kind |-> "throw", error |-> e]

-----------------------------------------------------------------------------
(* Subtitle codec (core/srtParser.js) *)

\* cue n of a document, as srt-parser-2 hands it over
Cue(n) == [id |-> n, startTime |-> n, text |-> SourceText(n)]

\* a subtitle file that holds n cues, and one that is empty or white space only
SrtContent(n) == [blank |-> FALSE, cues |-> n]
BlankContent == [blank |-> TRUE, cues |-> 0]

\* parser.fromSrt of srt-parser-2
fromSrt(srtContent) == [k \in 1..srtContent.cues |-> Cue(k)]

\* the cue texts of the documents studied hold no tags and no outer white space,
\* so that the tag stripping and the trim of the text leave them as they are;
\* endTime and duration are carried like startTime and are left out
_mapToSrtLine(libLine) ==
    [sequence |-> libLine.id, startTime |-> libLine.startTime, text |-> libLine.text]

_mapFromSrtLine(srtLine) ==
    [id |-> srtLine.sequence, startTime |-> srtLine.startTime, text |-> srtLine.text]

parseSrt(srtContent) ==
    IF srtContent.blank
    THEN Throw(BadRequestError(<<"SRT content must be a non-empty string.">>))
    ELSE LET srtArray == fromSrt(srtContent)
         IN  Return([k \in 1..Len(srtArray) |-> _mapToSrtLine(srtArray[k])])

toSrtString(lines) == [k \in 1..Len(lines) |-> _mapFromSrtLine(lines[k])]

-----------------------------------------------------------------------------
(* Backend responses and JSON values *)

Undefined == [type |-> "undefined"]

\* let isShuttingDown = false (server.js); let client; let dbInstance
\* (config/database.js)
NoGlobals == [isShuttingDown |-> FALSE, client |-> Undefined, dbInstance |-> Undefined]
JNull == [type |-> "null"]
JString(n) == [type |-> "string", length |-> n]
JArray(items) == [type |-> "array", items |-> items]
JObject(translations) == [type |-> "object", translations |-> translations]

\* a response text is a sequence of tokens
TokFenceJson == [t |-> "fence-json"]
TokFence == [t |-> "fence"]
TokNl == [t |-> "newline"]
TokWs == [t |-> "space"]
TokJunk == [t |-> "junk"]
TokJson(v) == [t |-> "json", v |-> v]

Text(tokens) == [type |-> "text", tokens |-> tokens]

IsSpace(tok) == tok = TokNl \/ tok = TokWs

RECURSIVE TrimStart(_)
TrimStart(s) == IF s # <<>> /\ IsSpace(Head(s)) THEN TrimStart(Tail(s)) ELSE s

RECURSIVE TrimEnd(_)
TrimEnd(s) ==
    IF s # <<>> /\ IsSpace(s[Len(s)]) THEN TrimEnd(SubSeq(s, 1, Len(s) - 1)) ELSE s

\* String.prototype.trim()
Trim(s) == TrimEnd(TrimStart(s))

\* .replace(/^(fence)json(newline)?/, empty): the opening fence tagged json
StripOpeningFence(s) ==
    IF s # <<>> /\ Head(s) = TokFenceJson
    THEN IF Len(s) >= 2 /\ s[2] = TokNl THEN SubSeq(s, 3, Len(s)) ELSE Tail(s)
    ELSE s

\* .replace(/(newline)?(fence)$/, empty): the closing fence
StripClosingFence(s) ==
    IF s # <<>> /\ s[Len(s)] = TokFence
    THEN IF Len(s) >= 2 /\ s[Len(s) - 1] = TokNl
         THEN SubSeq(s, 1, Len(s) - 2)
         ELSE SubSeq(s, 1, Len(s) - 1)
    ELSE s

\* JSON.parse: one JSON value, white space allowed around it
JSONparse(s) ==
    LET body == Trim(s)
    IN  IF Len(body) = 1 /\ body[1].t = "json"
        THEN Return(body[1].v)
        ELSE Throw(TypeError(<<"SyntaxError">>))

\* a parser that reports the text it cleaned instead of the text it was given
parseJsonAgentResponse_cleaned(responseText, agentName) ==
    LET cleaned == IF responseText.type = "text"
                   THEN [responseText EXCEPT
                            !.tokens = StripClosingFence(StripOpeningFence(Trim(@)))]
                   ELSE responseText
    IN  IF responseText.type = "text" /\ JSONparse(cleaned.tokens).kind = "return"
        THEN JSONparse(cleaned.tokens)
        ELSE Throw(ApiError(<<"Agent [", agentName, "] returned malformed JSON.">>, 500,
                            "AGENT_JSON_ERROR", [responseText |-> cleaned]))

MalformedJsonMessage(agentName) == <<"Agent [", agentName, "] returned malformed JSON.">>

parseJsonAgentResponse(responseText, agentName) ==
    LET malformed == Throw(ApiError(MalformedJsonMessage(agentName), 500,
                                   "AGENT_JSON_ERROR", [responseText |-> responseText]))
    IN  IF responseText.type # "text"
        THEN malformed   \* responseText.trim is not a function: caught
        ELSE LET cleanedText == StripClosingFence(StripOpeningFence(Trim(responseText.tokens)))
                 parsed == JSONparse(cleanedText)
             IN  IF parsed.kind = "throw" THEN malformed ELSE parsed

-----------------------------------------------------------------------------
(* Stage invoker (services/gemini agent service) *)

Agents == <<"transcreateBatch", "editBatch", "qaBatch", "phantomSync">>

AgentIndex(agentName) == CHOOSE a \in DOMAIN Agents : Agents[a] = agentName

MismatchMessage(agentName) ==
    <<"Agent [", agentName, "] returned a mismatched number of translations.">>

\* Array.isArray(v)
IsArray(v) == v.type = "array"

\* v?.length
OptionalLength(v) ==
    CASE v.type = "array" -> Len(v.items)
      [] v.type = "string" -> v.length
      [] OTHER -> Undefined

\* a log entry that reports the expected count as the received one
MismatchLogEntry_expectedOnly(agentName, batch, translations) ==
    [expected |-> Len(batch), received |-> Len(batch), agent |-> agentName]

\* the log entry of the FATAL BATCH MISMATCH line
MismatchLogEntry(agentName, batch, translations) ==
    [expected |-> Len(batch), received |-> OptionalLength(translations),
     agent |-> agentName]

\* _callBatchAgent from the line after the await of callGemini:
\* res is what the call returns or throws, errors what it writes to logger.error
ValidateResponse(agentName, batch, responseText) ==
    LET parsed == parseJsonAgentResponse(responseText, agentName)
    IN  IF parsed.kind = "throw"
        THEN [res |-> parsed, errors |-> <<>>]
        ELSE IF parsed.value.type = "null"
        THEN \* parsed.translations on null
             [res |-> Throw(TypeError(<<"Cannot read properties of null (reading translations)">>)),
              errors |-> <<>>]
        ELSE LET \* a string or an array has no property translations
                 translations == IF parsed.value.type = "object"
                                 THEN parsed.value.translations
                                 ELSE Undefined
             IN  IF ~IsArray(translations) \/ Len(translations.items) # Len(batch)
                 THEN [res |-> Throw(ApiError(MismatchMessage(agentName), 500,
                                              "AGENT_LENGTH_MISMATCH", EmptyContext)),
                       errors |-> <<MismatchLogEntry(agentName, batch, translations)>>]
                 ELSE [res |-> Return(translations.items), errors |-> <<>>]

-----------------------------------------------------------------------------
(* Text-generation backend client (config/gemini.js) *)

\* the test of the retry loop
WithinRetries(attempt) == attempt <= config.GEMINI_MAX_RETRIES

\* a loop that starts over at the first attempt after a failure
NextAttempt_reset(attempt) == 1

\* attempt++
NextAttempt(attempt) == attempt + 1

\* a backoff that grows by the base wait instead of doubling
delay_linear(attempt) == config.GEMINI_BACKOFF_MS * attempt

\* a catch block that never takes an attempt for the last one
isLastAttempt_never(attempt) == FALSE

isLastAttempt(attempt) == attempt = config.GEMINI_MAX_RETRIES

\* the backoff before the next attempt
delay(attempt) == config.GEMINI_BACKOFF_MS * 2 ^ (attempt - 1)

GeminiApiError ==
    ApiError(<<"Gemini API call failed after ", ToString(config.GEMINI_MAX_RETRIES), " attempts.">>,
             503, "GEMINI_API_ERROR", [originalError |-> "generateContent failed"])

\* one attempt of model.generateContent: it throws, or its response has a text
AttemptFailed == [ok |-> FALSE]
AttemptAnswered(text) == [ok |-> TRUE, text |-> text]

RECURSIVE callGeminiFrom(_, _)
\* the retry loop from a given attempt on; backend[k] is what attempt k meets
callGeminiFrom(attempt, backend) ==
    IF ~WithinRetries(attempt)
    THEN Return(Undefined)
    ELSE IF backend[attempt].ok
    THEN Return(backend[attempt].text)
    ELSE IF isLastAttempt(attempt)
    THEN Throw(GeminiApiError)
    ELSE callGeminiFrom(attempt + 1, backend)

callGemini(backend) == callGeminiFrom(1, backend)

\* what an agent that keeps the contract answers for a batch
GoodTranslations(agentName, batch) ==
    [k \in 1..Len(batch) |-> Translation(AgentIndex(agentName), batch[k].sequence)]

\* the same with the first line left empty
BlankTranslations(agentName, batch) ==
    [k \in 1..Len(batch) |->
        IF k = 1 THEN EmptyString ELSE Translation(AgentIndex(agentName), batch[k].sequence)]

\* the response texts the backend is taken to answer a stage call with
BackendTexts(agentName, batch) ==
    LET translations == GoodTranslations(agentName, batch)
        good == TokJson(JObject(JArray(translations)))
        n == Len(batch)
    IN  { Text(<<good>>),
          Text(<<TokFenceJson, TokNl, good, TokNl, TokFence>>),
          Text(<<TokWs, TokFenceJson, good, TokFence, TokNl>>),
          Text(<<TokJson(JObject(JArray(SubSeq(translations, 1, n - 1))))>>),
          Text(<<TokJson(JObject(JArray(Append(translations, Translation(AgentIndex(agentName), 0)))))>>),
          Text(<<TokJson(JObject(JString(n)))>>),
          Text(<<TokJson(JObject(Undefined))>>),
          Text(<<TokJson(JNull)>>),
          Text(<<TokJson(JArray(translations))>>),
          Text(<<TokJson(JString(n))>>),
          Text(<<TokJunk>>),
          Text(<<TokFence, TokNl, good, TokNl, TokFence>>) }
        \cup (IF agentName = "phantomSync"
              THEN {Text(<<TokJson(JObject(JArray(BlankTranslations(agentName, batch))))>>)}
              ELSE {})

\* how the attempts of one callGemini call can go: some fail, then one answers,
\* or all of them fail
BackendBehaviours(agentName, batch) ==
    LET R == config.GEMINI_MAX_RETRIES
    IN  { [a \in 1..R |-> IF a <= f THEN AttemptFailed ELSE AttemptAnswered(t)] :
            f \in 0..(R - 1), t \in BackendTexts(agentName, batch) }
        \cup { [a \in 1..R |-> AttemptFailed] }

\* _callBatchAgent, given what its await of callGemini ended with
AwaitedGemini(agentName, batch, awaited) ==
    IF awaited.kind = "throw"
    THEN [res |-> awaited, errors |-> <<>>]
    ELSE ValidateResponse(agentName, batch, awaited.value)

\* _callBatchAgent as one step
_callBatchAgent(agentName, batch, backend) ==
    AwaitedGemini(agentName, batch, callGemini(backend))

-----------------------------------------------------------------------------
(* Document store (translation repository) *)

JobIds == {"job1"}

\* a settled call of a repository method, as the history keeps it: ok tells
\* whether the call fulfilled
DbCall(op, id, ok) == [op |-> op, jobId |-> id, ok |-> ok]

\* a blueprint, by the number of terms of its glossary
Blueprint(terms) == [type |-> "object", glossary |-> terms]

\* the document createJob inserts
JobDocument(jobData) ==
    [subtitleContent |-> jobData.subtitleContent, settings |-> jobData.settings,
     status |-> "processing_blueprint", blueprint |-> Undefined, finalSrt |-> Undefined]

\* insertOne(jobDocument), under the id the driver gives the document
createJob(id, jobData) == [jobs EXCEPT ![id] = JobDocument(jobData)]

\* updateOne({_id}, {$set: {blueprint, status: 'pending_approval'}}): no document,
\* no change
saveBlueprint(id, blueprint) ==
    IF jobs[id] = JNull
    THEN jobs
    ELSE [jobs EXCEPT ![id] = [@ EXCEPT !.blueprint = blueprint,
                                        !.status = "pending_approval"]]

\* a job as generateTranslationBlueprint leaves it: created, blueprint saved
Job(content) ==
    [JobDocument([subtitleContent |-> content, settings |-> [tone |-> "formal"]])
        EXCEPT !.blueprint = Blueprint(0), !.status = "pending_approval"]

\* a lookup that hands out a made-up job when the store has none
getJobById_stub(id) == IF jobs[id] = JNull THEN Job(SrtContent(1)) ELSE jobs[id]

getJobById(jobId) == jobs[jobId]

\* updateOne({_id}, {$set: {finalSrt, status: 'complete'}}): no document, no change
saveFinalSrt(jobId, finalSrt) ==
    IF jobs[jobId] = JNull
    THEN jobs
    ELSE [jobs EXCEPT ![jobId] = [@ EXCEPT !.finalSrt = finalSrt, !.status = "complete"]]

-----------------------------------------------------------------------------
(* Chain orchestrator and scheduler (translation service) *)

\* the run under study
jobId == "job1"

RECURSIVE SegmentFrom(_, _, _)
\* the for loop that fills batches, from a given index on
SegmentFrom(lines, from, acc) ==
    IF from < Len(lines)
    THEN SegmentFrom(lines, from + BATCH_SIZE,
                     Append(acc, Slice(lines, from, from + BATCH_SIZE)))
    ELSE acc

\* a segmentation that gives an empty document one empty batch
Segment_atLeastOne(lines) ==
    IF lines = <<>> THEN <<lines>> ELSE SegmentFrom(lines, 0, <<>>)

Segment(lines) == SegmentFrom(lines, 0, <<>>)

\* a slice that ends one batch too late
ChunkOf_wide(nBatches, from) == (from + 1)..Min(from + CONCURRENT_BATCHES + 1, nBatches)

\* const chunk = batches.slice(i, i + CONCURRENT_BATCHES), as batch numbers
ChunkOf(nBatches, from) == (from + 1)..Min(from + CONCURRENT_BATCHES, nBatches)

\* the chunk being awaited
chunk == ChunkOf(Len(bstate), i)

\* a chain that calls editBatch a second time where qaBatch belongs
AgentAt_editTwice(stage) == IF stage = 3 THEN "editBatch" ELSE Agents[stage]

\* the stage a batch calls at each position of _processSingleBatch
AgentAt(stage) == Agents[stage]

\* edit and QA are handed the blueprint of the job record
SharedContext_stored(stage, blueprint, settings) ==
    CASE stage = 1 -> [blueprint |-> blueprint, tone |-> settings.tone]
      [] stage \in {2, 3} -> [blueprint |-> job.blueprint, tone |-> Undefined]
      [] OTHER -> [blueprint |-> Undefined, tone |-> Undefined]

\* the shared context _processSingleBatch hands to the stage it calls
SharedContext(stage, blueprint, settings) ==
    CASE stage = 1 -> [blueprint |-> blueprint, tone |-> settings.tone]
      [] stage \in {2, 3} -> [blueprint |-> blueprint, tone |-> Undefined]
      [] OTHER -> [blueprint |-> Undefined, tone |-> Undefined]

\* the promise of a batch also carries whether something is subscribed to it
Idle == [st |-> "idle", stage |-> 0, invoked |-> <<>>, context |-> <<>>, arg |-> <<>>,
         transcreated |-> <<>>, edited |-> <<>>, qaApproved |-> <<>>, ret |-> <<>>,
         subscribed |-> FALSE]

\* qaBatch is handed the first draft instead of the edited translations
PriorTranslations_stale(stage, b) ==
    CASE stage = 2 -> b.transcreated
      [] stage = 3 -> b.transcreated
      [] stage = 4 -> b.qaApproved
      [] OTHER -> <<>>

\* the earlier output _processSingleBatch hands to the stage it calls
PriorTranslations(stage, b) ==
    CASE stage = 2 -> b.transcreated
      [] stage = 3 -> b.edited
      [] stage = 4 -> b.qaApproved
      [] OTHER -> <<>>

\* _processSingleBatch is entered: transcreateBatch is called
Entered ==
    [Idle EXCEPT !.st = "run", !.stage = 1, !.invoked = <<AgentAt(1)>>,
                 !.context = <<SharedContext(1, request.confirmedBlueprint, request.settings)>>]

\* _processSingleBatch resumes with the output of the stage it awaited
Resumed(b, out) ==
    LET kept == CASE b.stage = 1 -> [b EXCEPT !.transcreated = out]
                  [] b.stage = 2 -> [b EXCEPT !.edited = out]
                  [] b.stage = 3 -> [b EXCEPT !.qaApproved = out]
                  [] OTHER -> b
    IN  IF b.stage < 4
        THEN [kept EXCEPT !.stage = b.stage + 1,
                          !.invoked = Append(b.invoked, AgentAt(b.stage + 1)),
                          !.context = Append(b.context,
                                SharedContext(b.stage + 1, request.confirmedBlueprint,
                                              request.settings)),
                          !.arg = PriorTranslations(b.stage + 1, kept)]
        ELSE [Idle EXCEPT !.st = "returned", !.stage = b.stage,
                          !.invoked = b.invoked, !.context = b.context, !.ret = out]

\* a batch that calls the failed stage again instead of rejecting
Faulted_retries(b) == [b EXCEPT !.invoked = Append(@, AgentAt(b.stage))]

\* _processSingleBatch rejects with the fault of the stage it awaited
Faulted(b) ==
    [Idle EXCEPT !.st = "faulted", !.stage = b.stage, !.invoked = b.invoked,
                 !.context = b.context]

\* a join that subscribes to the first promise of the chunk only
PromiseAllSubscribes_firstOnly(promises, b) == \A b2 \in promises : b <= b2

\* Promise.all(chunkPromises) subscribes to every promise it is given, before
\* any of them can settle
PromiseAllSubscribes(promises, b) == b \in promises

\* Promise.all: a slot of the result array not yet fulfilled
Pending == <<>>

\* a join that collects the values in the order the promises fulfil
PromiseAllOnFulfilled_completionOrder(vals, index, v) ==
    LET first == CHOOSE k \in DOMAIN vals :
                    vals[k] = <<>> /\ \A k2 \in 1..(k - 1) : vals[k2] # <<>>
    IN  [vals EXCEPT ![first] = v]

\* Promise.all: the promise at a given index fulfils with v
PromiseAllOnFulfilled(vals, index, v) == [vals EXCEPT ![index] = v]

\* a join with a deadline: it no longer waits for a batch that is at its last
\* stage
PromiseAllResolved_deadline(bst, promises) ==
    \A b \in promises : bst[b].st = "returned" \/ (bst[b].st = "run" /\ bst[b].stage = 4)

\* a join that resolves with the first promise that fulfils
PromiseAllResolved_any(bst, promises) == \E b \in promises : bst[b].st = "returned"

\* Promise.all: all promises have fulfilled
PromiseAllResolved(bst, promises) == \A b \in promises : bst[b].st = "returned"

\* a fallback for undefined only: an empty translation is kept
FinalText_definedOnly(line, index, translated) ==
    IF index <= Len(translated) /\ translated[index] # UndefinedText
    THEN translated[index]
    ELSE line.text

\* the text of one line of the final document
FinalText(line, index, translated) ==
    IF index <= Len(translated) /\ ~Falsy(translated[index])
    THEN translated[index]
    ELSE line.text

\* a reassembly that leaves out the lines that have no translation
finalSrtObject_dropsMissing ==
    LET kept == {k \in DOMAIN srtLines :
                    k <= Len(translatedLines) /\ ~Falsy(translatedLines[k])}
        nth(n) == CHOOSE k \in kept : Cardinality({k2 \in kept : k2 < k}) = n - 1
    IN  [n \in 1..Cardinality(kept) |->
            [srtLines[nth(n)] EXCEPT !.text = translatedLines[nth(n)]]]

\* srtLines.map((line, index) => ({...line, text: ...}))
finalSrtObjectOf(lines, translated) ==
    [k \in 1..Len(lines) |-> [lines[k] EXCEPT !.text = FinalText(lines[k], k, translated)]]

finalSrtObject == finalSrtObjectOf(srtLines, translatedLines)

\* what the stage call a batch awaits can settle with: _callBatchAgent over
\* every behaviour of the backend
StageOutcomes(agentName, batch) ==
    LET awaited == { callGemini(backend) : backend \in BackendBehaviours(agentName, batch) }
    IN  { AwaitedGemini(agentName, batch, a).res : a \in awaited }

-----------------------------------------------------------------------------
(* executeTranslationChain, step by step *)

NoOutcome == [kind |-> "pending"]

NoCall == [pc |-> "idle"]

\* request.body of executeTranslation: the blueprint the user confirmed (not the
\* one the store holds) and the settings
ExecuteRequest ==
    [jobId |-> jobId, confirmedBlueprint |-> Blueprint(1), settings |-> [tone |-> "formal"]]

DefaultConfig == [GEMINI_MAX_RETRIES |-> DEFAULT_GEMINI_MAX_RETRIES,
                  GEMINI_BACKOFF_MS |-> DEFAULT_GEMINI_BACKOFF_MS]

Init ==
    /\ config = DefaultConfig
    /\ jobs \in {[j \in JobIds |-> JNull]}
                \cup {[j \in JobIds |-> Job(BlankContent)]}
                \cup {[j \in JobIds |-> Job(SrtContent(n))] : n \in DocSizes}
    /\ pc = "start"
    /\ job = Undefined
    /\ srtLines = <<>>
    /\ batches = <<>>
    /\ i = 0
    /\ bstate = <<>>
    /\ values = <<>>
    /\ allTranslatedBatches = <<>>
    /\ translatedLines = <<>>
    /\ outcome = NoOutcome
    /\ overtaken = FALSE
    /\ call = NoCall
    /\ dbLog = <<>>
    /\ procs = <<>>
    /\ request = ExecuteRequest
    /\ tasks = <<>>
    /\ logs = <<>>
    /\ attempts = <<>>
    /\ rejections = <<>>
    /\ globals = NoGlobals

\* executeTranslationChain throws e
Rejects(e) ==
    /\ pc' = "failed"
    /\ outcome' = Throw(e)

\* the chunk loop at its test, with a given index: the next chunk is started and
\* awaited, or the loop is left and saveFinalSrt is called and awaited
Proceed(from, all, bst) ==
    /\ i' = from
    /\ allTranslatedBatches' = all
    /\ IF from < Len(bst)
       THEN /\ bstate' = [b \in DOMAIN bst |->
                            IF b \in ChunkOf(Len(bst), from)
                            THEN [Entered EXCEPT !.subscribed =
                                     PromiseAllSubscribes(ChunkOf(Len(bst), from), b)]
                            ELSE bst[b]]
            /\ values' = [k \in 1..Cardinality(ChunkOf(Len(bst), from)) |-> Pending]
            /\ translatedLines' = translatedLines
            /\ pc' = "join"
       ELSE /\ bstate' = bst
            /\ values' = <<>>
            /\ translatedLines' = Flat(all)
            /\ pc' = "saving"

\* from the entry to the first await of Promise.all (or of saveFinalSrt)
FetchJobAwaited ==
    /\ pc = "start"
    /\ job' = getJobById(jobId)
    /\ dbLog' = Append(dbLog, DbCall("getJobById", jobId, TRUE))
    /\ IF job' = JNull
       THEN /\ Rejects(NotFoundError(<<"Job with ID ", jobId, " not found.">>))
            /\ UNCHANGED <<srtLines, batches, i, bstate, values,
                           allTranslatedBatches, translatedLines>>
       ELSE LET parsed == parseSrt(job'.subtitleContent)
            IN  IF parsed.kind = "throw"
                THEN /\ Rejects(parsed.error)
                     /\ UNCHANGED <<srtLines, batches, i, bstate, values,
                                    allTranslatedBatches, translatedLines>>
                ELSE /\ srtLines' = parsed.value
                     /\ batches' = Segment(srtLines')
                     /\ Proceed(0, <<>>, [b \in 1..Len(batches') |-> Idle])
                     /\ UNCHANGED outcome
    /\ UNCHANGED <<config, globals, request, tasks, logs, rejections, jobs, overtaken, call, procs>>

FetchJob == FetchJobAwaited /\ UNCHANGED attempts

\* a join that waits for every promise to settle before it rejects
BatchRejects_waits(b, e) ==
    /\ bstate' = [bstate EXCEPT ![b] = Faulted(@)]
    /\ IF pc = "join" /\ \A b2 \in DOMAIN bstate : b2 # b => bstate[b2].st # "run"
       THEN pc' = "failed" /\ outcome' = Throw(e)
       ELSE UNCHANGED <<pc, outcome>>
    /\ UNCHANGED <<i, values, allTranslatedBatches, translatedLines, overtaken>>

\* a batch whose fault is swallowed: the join never hears of it
BatchRejects_swallowed(b, e) ==
    /\ bstate' = [bstate EXCEPT ![b] = Faulted(@)]
    /\ UNCHANGED <<pc, outcome, i, values, allTranslatedBatches, translatedLines, overtaken>>

\* the promise of batch b rejects: Promise.all rejects with the first rejection
\* it sees and ignores the later ones
BatchRejects(b, e) ==
    /\ bstate' = [bstate EXCEPT ![b] = Faulted(@)]
    /\ IF pc = "join" THEN Rejects(e) ELSE UNCHANGED <<pc, outcome>>
    /\ UNCHANGED <<i, values, allTranslatedBatches, translatedLines, overtaken>>

\* the promise of batch b fulfils: Promise.all stores the value and, when it was
\* the last one pending, resolves, and the chunk loop goes on
BatchFulfils(b, nb) ==
    LET bst == [bstate EXCEPT ![b] = nb]
        vals == PromiseAllOnFulfilled(values, b - i, nb.ret)
    IN  /\ overtaken' = (overtaken \/ \E b2 \in chunk : b2 < b /\ bstate[b2].st = "run")
        /\ IF pc = "join" /\ PromiseAllResolved(bst, chunk)
           THEN Proceed(i + CONCURRENT_BATCHES, allTranslatedBatches \o vals, bst)
           ELSE /\ bstate' = bst
                /\ values' = vals
                /\ UNCHANGED <<pc, i, allTranslatedBatches, translatedLines>>
        /\ UNCHANGED outcome

\* _processSingleBatch of batch b resumes with what the stage call it awaited
\* returned or threw
StageSettlesWith(b, r) ==
    IF r.kind = "throw"
    THEN BatchRejects(b, r.error)
    ELSE IF Resumed(bstate[b], r.value).st = "run"
    THEN /\ bstate' = [bstate EXCEPT ![b] = Resumed(@, r.value)]
         /\ UNCHANGED <<pc, i, values, allTranslatedBatches, translatedLines,
                        outcome, overtaken>>
    ELSE BatchFulfils(b, Resumed(bstate[b], r.value))

\* the stage call batch b awaits settles
StageSettles(b) ==
    /\ bstate[b].st = "run"
    /\ \E r \in StageOutcomes(AgentAt(bstate[b].stage), batches[b]) :
          StageSettlesWith(b, r)
    /\ UNCHANGED <<config, globals, request, tasks, logs, attempts, rejections, jobs, job, srtLines, batches, call, dbLog, procs>>

\* a store that applies the update and then rejects the call
SaveFinalSrt_writesThenRejects ==
    /\ pc = "saving"
    /\ jobs' = saveFinalSrt(jobId, toSrtString(finalSrtObject))
    /\ \E stored \in BOOLEAN :
          /\ dbLog' = Append(dbLog, DbCall("saveFinalSrt", jobId, stored))
          /\ IF stored
             THEN /\ pc' = "done"
                  /\ outcome' = Return([finalSrt |-> toSrtString(finalSrtObject),
                                        syncSuggestions |-> <<>>])
             ELSE Rejects(TypeError(<<"MongoError">>))
    /\ UNCHANGED <<config, globals, request, tasks, logs, attempts, rejections, job, srtLines, batches, i, bstate, values,
                   allTranslatedBatches, translatedLines, overtaken, call, procs>>

\* the await of saveFinalSrt ends: the update is done, or the driver rejects
SaveFinalSrt ==
    /\ pc = "saving"
    /\ \E stored \in BOOLEAN :
          /\ dbLog' = Append(dbLog, DbCall("saveFinalSrt", jobId, stored))
          /\ IF stored
             THEN /\ jobs' = saveFinalSrt(jobId, toSrtString(finalSrtObject))
                  /\ pc' = "done"
                  /\ outcome' = Return([finalSrt |-> toSrtString(finalSrtObject),
                                        syncSuggestions |-> <<>>])
             ELSE /\ Rejects(TypeError(<<"MongoError">>))
                  /\ UNCHANGED jobs
    /\ UNCHANGED <<config, globals, request, tasks, logs, attempts, rejections, job, srtLines, batches, i, bstate, values,
                   allTranslatedBatches, translatedLines, overtaken, call, procs>>

Next ==
    \/ FetchJob
    \/ \E b \in DOMAIN bstate : StageSettles(b)
    \/ SaveFinalSrt

Spec == Init /\ [][Next]_vars

-----------------------------------------------------------------------------
(* executeTranslationChain, attempt by attempt (SpecRun) *)

RunSizes == {0, 1, MaxRunLines}

\* whole-number retry ceilings from 1 on
RunCeilings == {1, DEFAULT_GEMINI_MAX_RETRIES}

\* no callGemini activation yet: no attempt under way, none made
NoAttempt == [attempt |-> 0, waiting |-> FALSE, made |-> 0]

InitRun ==
    /\ config \in {[DefaultConfig EXCEPT !.GEMINI_MAX_RETRIES = r] : r \in RunCeilings}
    /\ jobs \in {[j \in JobIds |-> JNull]}
                \cup {[j \in JobIds |-> Job(SrtContent(n))] : n \in RunSizes}
    /\ pc = "start"
    /\ job = Undefined
    /\ srtLines = <<>>
    /\ batches = <<>>
    /\ i = 0
    /\ bstate = <<>>
    /\ values = <<>>
    /\ allTranslatedBatches = <<>>
    /\ translatedLines = <<>>
    /\ outcome = NoOutcome
    /\ overtaken = FALSE
    /\ call = NoCall
    /\ dbLog = <<>>
    /\ procs = <<>>
    /\ request = ExecuteRequest
    /\ tasks = <<>>
    /\ logs = <<>>
    /\ attempts = <<>>
    /\ rejections = <<>>
    /\ globals = NoGlobals

\* the callGemini activations after a step of the run: a batch that has just
\* called a stage is at the first attempt of a new callGemini call
Issued ==
    [b \in DOMAIN bstate' |->
        LET old == IF b \in DOMAIN attempts THEN attempts[b] ELSE NoAttempt
            was == IF b \in DOMAIN bstate THEN bstate[b] ELSE Idle
        IN  IF bstate'[b].st = "run" /\ (was.st # "run" \/ bstate'[b].stage # was.stage)
            THEN [attempt |-> 1, waiting |-> FALSE, made |-> old.made + 1]
            ELSE old]

RunFetchJob ==
    /\ FetchJobAwaited
    /\ attempts' = Issued

\* what a stage call ends with once an attempt has answered, over every text
\* the backend can answer with
AnswerOutcomes(agentName, batch) ==
    {AwaitedGemini(agentName, batch, Return(text)).res :
        text \in BackendTexts(agentName, batch)}

\* the attempt batch b awaits answers with a text: _callBatchAgent parses and
\* validates it and _processSingleBatch goes on
RunAttemptAnswers(b) ==
    /\ b \in DOMAIN bstate
    /\ bstate[b].st = "run"
    /\ ~attempts[b].waiting
    /\ \E r \in AnswerOutcomes(AgentAt(bstate[b].stage), batches[b]) :
          StageSettlesWith(b, r)
    /\ attempts' = Issued
    /\ UNCHANGED <<config, globals, request, tasks, logs, rejections, jobs, job, srtLines, batches, call,
                   dbLog, procs>>

\* the attempt batch b awaits throws: the catch block of callGemini raises the
\* backend-failure fault or starts the backoff timer
RunAttemptFails(b) ==
    /\ b \in DOMAIN bstate
    /\ bstate[b].st = "run"
    /\ ~attempts[b].waiting
    /\ IF isLastAttempt(attempts[b].attempt)
       THEN /\ StageSettlesWith(b, Throw(GeminiApiError))
            /\ attempts' = Issued
       ELSE /\ attempts' = [attempts EXCEPT ![b].waiting = TRUE]
            /\ UNCHANGED <<pc, i, bstate, values, allTranslatedBatches, translatedLines,
                           outcome, overtaken>>
    /\ UNCHANGED <<config, globals, request, tasks, logs, rejections, jobs, job, srtLines, batches, call,
                   dbLog, procs>>

\* the backoff timer of batch b fires: the loop makes its next attempt, or is
\* left, and callGemini returns undefined to _callBatchAgent
RunBackoffEnds(b) ==
    /\ b \in DOMAIN bstate
    /\ bstate[b].st = "run"
    /\ attempts[b].waiting
    /\ IF WithinRetries(NextAttempt(attempts[b].attempt))
       THEN /\ attempts' = [attempts EXCEPT ![b] =
                                [attempt |-> NextAttempt(attempts[b].attempt),
                                 waiting |-> FALSE, made |-> attempts[b].made + 1]]
            /\ UNCHANGED <<pc, i, bstate, values, allTranslatedBatches, translatedLines,
                           outcome, overtaken>>
       ELSE /\ StageSettlesWith(b, AwaitedGemini(AgentAt(bstate[b].stage), batches[b],
                                                 Return(Undefined)).res)
            /\ attempts' = [Issued EXCEPT ![b].waiting = FALSE]
    /\ UNCHANGED <<config, globals, request, tasks, logs, rejections, jobs, job, srtLines, batches, call,
                   dbLog, procs>>

NextRun ==
    \/ RunFetchJob
    \/ \E b \in DOMAIN bstate : RunAttemptAnswers(b)
    \/ \E b \in DOMAIN bstate : RunAttemptFails(b)
    \/ \E b \in DOMAIN bstate : RunBackoffEnds(b)
    \/ SaveFinalSrt

SpecRun == InitRun /\ [][NextRun]_vars

\* the attempt some batch awaits fails; it can fail exactly where it can answer
RunAttemptEnds == \E b \in DOMAIN bstate : RunAttemptFails(b)

\* a backoff timer that is awaited fires
RunTimerFires == \E b \in DOMAIN bstate : RunBackoffEnds(b)

\* no await of a run lasts for ever: every store call returns, every backoff
\* timer fires and every backend attempt ends. An attempt can answer wherever it
\* can fail, and a batch answers four times at most, so that the attempt which
\* is awaited for ever is the one that could fail for ever and never does.
SpecRunFair ==
    /\ SpecRun
    /\ WF_vars(RunFetchJob)
    /\ WF_vars(SaveFinalSrt)
    /\ WF_vars(RunTimerFires)
    /\ WF_vars(RunAttemptEnds)

-----------------------------------------------------------------------------
(* The run with its rejections recorded (SpecFaults) *)

\* documents of one chunk of two and of three batches
FaultSizes == {BATCH_SIZE + 1, MaxFaultLines}

InitFaults ==
    /\ config = DefaultConfig
    /\ jobs \in {[j \in JobIds |-> Job(SrtContent(n))] : n \in FaultSizes}
    /\ pc = "start"
    /\ job = Undefined
    /\ srtLines = <<>>
    /\ batches = <<>>
    /\ i = 0
    /\ bstate = <<>>
    /\ values = <<>>
    /\ allTranslatedBatches = <<>>
    /\ translatedLines = <<>>
    /\ outcome = NoOutcome
    /\ overtaken = FALSE
    /\ call = NoCall
    /\ dbLog = <<>>
    /\ procs = <<>>
    /\ request = ExecuteRequest
    /\ tasks = <<>>
    /\ logs = <<>>
    /\ attempts = <<>>
    /\ rejections = <<>>
    /\ globals = NoGlobals

\* the promise of batch b rejects with reason e: a rejection nothing is
\* subscribed to goes to the unhandledRejection handler of the process
Rejection(b, e) == [batch |-> b, reason |-> e, unhandled |-> ~bstate[b].subscribed]

\* the stage call batch b awaits settles; a fault rejects the promise of b
FaultsStageSettles(b) ==
    /\ bstate[b].st = "run"
    /\ \E r \in StageOutcomes(AgentAt(bstate[b].stage), batches[b]) :
          /\ StageSettlesWith(b, r)
          /\ rejections' = IF r.kind = "throw"
                            THEN Append(rejections, Rejection(b, r.error))
                            ELSE rejections
    /\ UNCHANGED <<config, globals, request, tasks, logs, attempts, jobs, job, srtLines, batches,
                   call, dbLog, procs>>

NextFaults ==
    \/ FetchJob
    \/ \E b \in DOMAIN bstate : FaultsStageSettles(b)
    \/ SaveFinalSrt

SpecFaults == InitFaults /\ [][NextFaults]_vars

-----------------------------------------------------------------------------
(* One stage call, step by step (SpecStage) *)

\* the retry ceilings the call is checked under: z.coerce.number() takes zero
\* and negative numbers too
RetryCeilings == -1..MaxRetryCeiling

\* the base waits the call is checked under
BackoffBases == {DEFAULT_GEMINI_BACKOFF_MS, DEFAULT_GEMINI_BACKOFF_MS \div 4}

\* the batch lengths the call is checked with
StageBatchLens == {1, 2, 10, BATCH_SIZE}

BatchOfLen(n) == [k \in 1..n |-> _mapToSrtLine(Cue(k))]

InitStage ==
    /\ config \in {[GEMINI_MAX_RETRIES |-> r, GEMINI_BACKOFF_MS |-> ms] :
                        r \in RetryCeilings, ms \in BackoffBases}
    /\ jobs = [j \in JobIds |-> JNull]
    /\ pc = "unused"
    /\ job = Undefined
    /\ srtLines = <<>>
    /\ batches = <<>>
    /\ i = 0
    /\ bstate = <<>>
    /\ values = <<>>
    /\ allTranslatedBatches = <<>>
    /\ translatedLines = <<>>
    /\ outcome = NoOutcome
    /\ overtaken = FALSE
    /\ call = NoCall
    /\ dbLog = <<>>
    /\ procs = <<>>
    /\ request = Undefined
    /\ tasks = <<>>
    /\ logs = <<>>
    /\ attempts = <<>>
    /\ rejections = <<>>
    /\ globals = NoGlobals

\* callGemini at the test of its loop: the next attempt is made, or the loop is
\* left and the function returns undefined
AtLoopTest(c, attempt) ==
    IF WithinRetries(attempt)
    THEN [c EXCEPT !.pc = "attempt", !.attempt = attempt,
                   !.backendCalls = c.backendCalls + 1]
    ELSE LET v == AwaitedGemini(c.agentName, c.batch, Return(Undefined))
         IN  [c EXCEPT !.pc = "settled", !.attempt = attempt, !.responseText = Undefined,
                       !.res = v.res, !.errors = v.errors]

\* a stage call that asks the backend again when the answer breaks the contract
OnAnswer_retries(c, text) ==
    LET v == AwaitedGemini(c.agentName, c.batch, Return(text))
    IN  IF v.res.kind = "throw" /\ WithinRetries(c.attempt + 1)
        THEN [c EXCEPT !.pc = "attempt", !.attempt = c.attempt + 1,
                       !.answers = c.answers + 1, !.backendCalls = c.backendCalls + 1]
        ELSE [c EXCEPT !.pc = "settled", !.answers = c.answers + 1, !.responseText = text,
                       !.res = v.res, !.errors = v.errors]

\* _callBatchAgent once callGemini answered with a text
OnAnswer(c, text) ==
    LET v == AwaitedGemini(c.agentName, c.batch, Return(text))
    IN  [c EXCEPT !.pc = "settled", !.answers = c.answers + 1, !.responseText = text,
                  !.res = v.res, !.errors = v.errors]

\* the catch block of callGemini
OnCatch(c) ==
    IF isLastAttempt(c.attempt)
    THEN [c EXCEPT !.pc = "settled", !.failures = c.failures + 1,
                   !.res = Throw(GeminiApiError)]
    ELSE [c EXCEPT !.pc = "backoff", !.failures = c.failures + 1,
                   !.delays = Append(c.delays, delay(c.attempt))]

\* _callBatchAgent is called and awaits callGemini
CallBatchAgent ==
    /\ call.pc = "idle"
    /\ \E agentName \in {Agents[a] : a \in DOMAIN Agents}, n \in StageBatchLens :
          call' = AtLoopTest([pc |-> "called", agentName |-> agentName,
                              batch |-> BatchOfLen(n), attempt |-> 0,
                              geminiCalls |-> 1, backendCalls |-> 0, answers |-> 0,
                              failures |-> 0, delays |-> <<>>,
                              responseText |-> Undefined, res |-> NoOutcome,
                              errors |-> <<>>], 1)
    /\ UNCHANGED <<config, globals, attempts, chainVars>>

\* model.generateContent answers with a text
AttemptAnswers ==
    /\ call.pc = "attempt"
    /\ \E text \in BackendTexts(call.agentName, call.batch) :
          call' = OnAnswer(call, text)
    /\ UNCHANGED <<config, globals, attempts, chainVars>>

\* model.generateContent throws
AttemptFails ==
    /\ call.pc = "attempt"
    /\ call' = OnCatch(call)
    /\ UNCHANGED <<config, globals, attempts, chainVars>>

\* the backoff timer fires
BackoffEnds ==
    /\ call.pc = "backoff"
    /\ call' = AtLoopTest(call, NextAttempt(call.attempt))
    /\ UNCHANGED <<config, globals, attempts, chainVars>>

NextStage ==
    \/ CallBatchAgent
    \/ AttemptAnswers
    \/ AttemptFails
    \/ BackoffEnds

SpecStage == InitStage /\ [][NextStage]_vars

-----------------------------------------------------------------------------
(* The batch loop, iteration by iteration (SpecSegment) *)

\* the document lengths the loop is run on
SegmentSizes == 0..MaxLines

InitSegment ==
    /\ config = DefaultConfig
    /\ jobs = [j \in JobIds |-> JNull]
    /\ pc = "segmenting"
    /\ job = Undefined
    /\ srtLines \in {parseSrt(SrtContent(n)).value : n \in SegmentSizes}
    /\ batches = <<>>
    /\ i = 0
    /\ bstate = <<>>
    /\ values = <<>>
    /\ allTranslatedBatches = <<>>
    /\ translatedLines = <<>>
    /\ outcome = NoOutcome
    /\ overtaken = FALSE
    /\ call = NoCall
    /\ dbLog = <<>>
    /\ procs = <<>>
    /\ request = Undefined
    /\ tasks = <<>>
    /\ logs = <<>>
    /\ attempts = <<>>
    /\ rejections = <<>>
    /\ globals = NoGlobals

\* a loop that starts the next batch on the last line of the one before
NextBatchStart_overlaps(from) == from + BATCH_SIZE - 1

\* i += BATCH_SIZE
NextBatchStart(from) == from + BATCH_SIZE

\* one iteration: batches.push(srtLines.slice(i, i + BATCH_SIZE))
BatchLoopPush ==
    /\ pc = "segmenting"
    /\ i < Len(srtLines)
    /\ batches' = Append(batches, Slice(srtLines, i, i + BATCH_SIZE))
    /\ i' = NextBatchStart(i)
    /\ UNCHANGED <<config, globals, request, tasks, logs, attempts, rejections, jobs, pc, job, srtLines, bstate, values, allTranslatedBatches,
                   translatedLines, outcome, overtaken, call, dbLog, procs>>

\* the loop test fails: the loop is left
BatchLoopExit ==
    /\ pc = "segmenting"
    /\ ~(i < Len(srtLines))
    /\ pc' = "segmented"
    /\ UNCHANGED <<config, globals, request, tasks, logs, attempts, rejections, jobs, job, srtLines, batches, i, bstate, values,
                   allTranslatedBatches, translatedLines, outcome, overtaken, call,
                   dbLog, procs>>

NextSegment ==
    \/ BatchLoopPush
    \/ BatchLoopExit

SpecSegment == InitSegment /\ [][NextSegment]_vars

-----------------------------------------------------------------------------
(* Reassembly on its own (SpecReassemble) *)

\* what position k of a translated array can hold: nothing, an empty text, or
\* the pacing stage's translation of line k
TranslatedAt(k) == {UndefinedText, EmptyString, Translation(4, k)}

\* the translated arrays a document of n lines is reassembled from: shorter,
\* as long, and one longer than the document
TranslatedArrays(n) ==
    UNION { {t \in [1..len -> UNION {TranslatedAt(k) : k \in 1..(n + 1)}] :
                \A k \in 1..len : t[k] \in TranslatedAt(k)} : len \in 0..(n + 1) }

InitReassemble ==
    /\ config = DefaultConfig
    /\ jobs = [j \in JobIds |-> JNull]
    /\ pc = "reassembling"
    /\ job = Undefined
    /\ srtLines \in {parseSrt(SrtContent(n)).value : n \in 0..MaxReassembled}
    /\ batches = Segment(srtLines)
    /\ i = 0
    /\ bstate = <<>>
    /\ values = <<>>
    /\ allTranslatedBatches = <<>>
    /\ translatedLines \in TranslatedArrays(Len(srtLines))
    /\ outcome = NoOutcome
    /\ overtaken = FALSE
    /\ call = NoCall
    /\ dbLog = <<>>
    /\ procs = <<>>
    /\ request = Undefined
    /\ tasks = <<>>
    /\ logs = <<>>
    /\ attempts = <<>>
    /\ rejections = <<>>
    /\ globals = NoGlobals

\* const finalSrtObject = srtLines.map(...); toSrtString(finalSrtObject)
Reassemble ==
    /\ pc = "reassembling"
    /\ pc' = "reassembled"
    /\ outcome' = Return([finalSrt |-> toSrtString(finalSrtObject),
                          syncSuggestions |-> <<>>])
    /\ UNCHANGED <<config, globals, request, tasks, logs, attempts, rejections, jobs, job, srtLines, batches, i, bstate, values,
                   allTranslatedBatches, translatedLines, overtaken, call, dbLog, procs>>

NextReassemble == Reassemble

SpecReassemble == InitReassemble /\ [][NextReassemble]_vars

-----------------------------------------------------------------------------
(* The pacing-sync stage (SpecPacing) *)

\* a translated text by its length in characters and whether it ends with the
\* compression annotation
PacedText(chars, marked) == [chars |-> chars, marked |-> marked]

\* the durations, in milliseconds, and the text lengths the stage is checked
\* with: 60 characters over 2.0 s and over 5.0 s, and 44 characters over 2.0 s,
\* which is the threshold exactly
PacingDurations == {2000, 5000}
PacingLengths == {44, 60}

\* a line as _mapToSrtLine makes it, with its duration
PacedLine(k, ms) == [sequence |-> k, startTime |-> k, text |-> SourceText(k), duration |-> ms]

PacedBatches ==
    UNION {[1..n -> PacingDurations] : n \in 1..MaxPaced}

\* the line is too fast to read: its pace is over the threshold
OverThreshold(line, text) == text.chars * 1000 > CPS_THRESHOLD * line.duration

\* what the backend can make of one line: the line as it is, a shorter text with
\* the annotation, a shorter text without it
PacedAnswers(text) ==
    {text, PacedText(text.chars \div 2, TRUE), PacedText(text.chars \div 2, FALSE)}

\* the data phantomSync puts into its prompt
promptData(batch, qaTranslations) ==
    [k \in 1..Len(batch) |->
        [sequence |-> batch[k].sequence, duration |-> batch[k].duration,
         translatedLine |-> IF k <= Len(qaTranslations) THEN qaTranslations[k]
                            ELSE PacedText(0, FALSE)]]

InitPacing ==
    /\ config = DefaultConfig
    /\ jobs = [j \in JobIds |-> JNull]
    /\ pc = "unused"
    /\ job = Undefined
    /\ srtLines = <<>>
    /\ batches = <<>>
    /\ i = 0
    /\ bstate = <<>>
    /\ values = <<>>
    /\ allTranslatedBatches = <<>>
    /\ translatedLines = <<>>
    /\ outcome = NoOutcome
    /\ overtaken = FALSE
    /\ call = NoCall
    /\ dbLog = <<>>
    /\ procs = <<>>
    /\ request = Undefined
    /\ tasks = <<>>
    /\ logs = <<>>
    /\ attempts = <<>>
    /\ rejections = <<>>
    /\ globals = NoGlobals

\* phantomSync is called with a batch and the reviewed translations, builds its
\* prompt and awaits _callBatchAgent
PhantomSyncCalled ==
    /\ call.pc = "idle"
    /\ \E durations \in PacedBatches :
          \E lengths \in [DOMAIN durations -> PacingLengths] :
             LET batch == [k \in DOMAIN durations |-> PacedLine(k, durations[k])]
                 qaTranslations == [k \in DOMAIN durations |-> PacedText(lengths[k], FALSE)]
             IN  call' = [pc |-> "awaiting", agentName |-> "phantomSync", batch |-> batch,
                          qaTranslations |-> qaTranslations,
                          promptData |-> promptData(batch, qaTranslations),
                          res |-> NoOutcome, errors |-> <<>>]
    /\ UNCHANGED <<config, globals, attempts, chainVars>>

\* the backend answers the prompt with an array of texts, one per line or one
\* too few, and _callBatchAgent validates the answer
PacingBackendAnswers ==
    /\ call.pc = "awaiting"
    /\ \E n \in {Len(call.batch) - 1, Len(call.batch)} :
          \E items \in [1..n -> UNION {PacedAnswers(call.qaTranslations[k]) :
                                          k \in DOMAIN call.qaTranslations}] :
             /\ \A k \in 1..n : items[k] \in PacedAnswers(call.qaTranslations[k])
             /\ LET v == ValidateResponse(call.agentName, call.batch,
                                          Text(<<TokJson(JObject(JArray(items)))>>))
                IN  call' = [call EXCEPT !.pc = "settled", !.res = v.res, !.errors = v.errors]
    /\ UNCHANGED <<config, globals, attempts, chainVars>>

NextPacing ==
    \/ PhantomSyncCalled
    \/ PacingBackendAnswers

SpecPacing == InitPacing /\ [][NextPacing]_vars

-----------------------------------------------------------------------------
(* Background tasks (utils/async.js), under a caller (SpecBackground) *)

\* what calling promiseFn does: it returns a promise that fulfils or rejects
\* later, returns a value that is no promise, or throws before it returns
TaskFns == {"fulfils", "rejects", "returnsValue", "throws"}

TaskName(n) == <<"Task ", n>>

LogEntry(level, taskName, msg) == [level |-> level, task |-> taskName, msg |-> msg]

InitBackground ==
    /\ config = DefaultConfig
    /\ jobs = [j \in JobIds |-> JNull]
    /\ pc = "caller"
    /\ job = Undefined
    /\ srtLines = <<>>
    /\ batches = <<>>
    /\ i = 0
    /\ bstate = <<>>
    /\ values = <<>>
    /\ allTranslatedBatches = <<>>
    /\ translatedLines = <<>>
    /\ outcome = NoOutcome
    /\ overtaken = FALSE
    /\ call = NoCall
    /\ dbLog = <<>>
    /\ procs = <<>>
    /\ request = Undefined
    /\ tasks = <<>>
    /\ logs = <<>>
    /\ attempts = <<>>
    /\ rejections = <<>>
    /\ globals = NoGlobals

\* runInBackground as its caller sees it: what it logs, the promise it leaves
\* behind and how it ends.  promiseFn() is evaluated as the argument of
\* Promise.resolve: when it throws, no promise is made and the exception
\* leaves runInBackground
runInBackground(promiseFn, taskName) ==
    [logs |-> <<LogEntry("info", taskName, "Starting background task")>>,
     task |-> [fn |-> promiseFn, name |-> taskName,
               st |-> CASE promiseFn = "throws" -> "threw"
                        [] promiseFn = "rejects" -> "willReject"
                        [] OTHER -> "willFulfil"],
     res |-> IF promiseFn = "throws"
             THEN Throw(TypeError(<<"thrown by ", taskName>>))
             ELSE Return(Undefined)]

\* the caller calls runInBackground; an exception that leaves it ends the caller
RunInBackground ==
    /\ pc = "caller"
    /\ Len(tasks) < MaxTasks
    /\ \E promiseFn \in TaskFns :
          LET r == runInBackground(promiseFn, TaskName(Len(tasks) + 1))
          IN  /\ logs' = logs \o r.logs
              /\ tasks' = Append(tasks, r.task)
              /\ IF r.res.kind = "throw"
                 THEN pc' = "failed" /\ outcome' = r.res
                 ELSE UNCHANGED <<pc, outcome>>
    /\ UNCHANGED <<config, globals, request, attempts, rejections, jobs, job, srtLines, batches, i, bstate, values,
                   allTranslatedBatches, translatedLines, overtaken, call, dbLog, procs>>

\* the caller returns
CallerReturns ==
    /\ pc = "caller"
    /\ pc' = "returned"
    /\ outcome' = Return(Len(tasks))
    /\ UNCHANGED <<config, globals, request, tasks, logs, attempts, rejections, jobs, job, srtLines, batches, i, bstate,
                   values, allTranslatedBatches, translatedLines, overtaken, call,
                   dbLog, procs>>

\* the promise of a task settles: the then handler or the catch handler logs
TaskSettles(t) ==
    /\ tasks[t].st \in {"willFulfil", "willReject"}
    /\ IF tasks[t].st = "willFulfil"
       THEN /\ tasks' = [tasks EXCEPT ![t].st = "fulfilled"]
            /\ logs' = Append(logs, LogEntry("info", tasks[t].name,
                                             "Background task completed successfully"))
       ELSE /\ tasks' = [tasks EXCEPT ![t].st = "rejected"]
            /\ logs' = Append(logs, LogEntry("error", tasks[t].name,
                                             "Background task failed"))
    /\ UNCHANGED <<config, globals, request, attempts, rejections, jobs, pc, job, srtLines, batches, i, bstate, values,
                   allTranslatedBatches, translatedLines, outcome, overtaken, call,
                   dbLog, procs>>

NextBackground ==
    \/ RunInBackground
    \/ CallerReturns
    \/ \E t \in DOMAIN tasks : TaskSettles(t)

SpecBackground == InitBackground /\ [][NextBackground]_vars

-----------------------------------------------------------------------------
(* The job record under the request handlers (SpecJob) *)

RunIds == 1..MaxRuns

\* the subtitle contents a blueprint request brings
JobContents == {BlankContent} \cup {SrtContent(n) : n \in 0..MaxJobCues}

\* the glossary sizes assembleBlueprint answers with
GlossarySizes == 0..MaxGlossary

\* the awaits of generateTranslationBlueprint on the agent service, in order
BlueprintAgents == <<"extractKeywords", "groundTranslations", "assembleBlueprint">>

\* an activation of a request handler: where it is, the job id it works on, the
\* job it read or the content it was given, and what it returned or threw
Activation(at, id, data, result) == [pc |-> at, jobId |-> id, data |-> data, result |-> result]

NotStarted == Activation("start", "", Undefined, NoOutcome)

InitJob ==
    /\ config = DefaultConfig
    /\ jobs = [j \in JobIds |-> JNull]
    /\ pc = "unused"
    /\ job = Undefined
    /\ srtLines = <<>>
    /\ batches = <<>>
    /\ i = 0
    /\ bstate = <<>>
    /\ values = <<>>
    /\ allTranslatedBatches = <<>>
    /\ translatedLines = <<>>
    /\ outcome = NoOutcome
    /\ overtaken = FALSE
    /\ call = NoCall
    /\ dbLog = <<>>
    /\ procs = [generate |-> NotStarted, execute |-> [r \in RunIds |-> NotStarted]]
    /\ request = Undefined
    /\ tasks = <<>>
    /\ logs = <<>>
    /\ attempts = <<>>
    /\ rejections = <<>>
    /\ globals = NoGlobals

\* generateTranslationBlueprint up to its await of extractKeywords: createJob
\* inserts the document, or rejects
GenerateCreateJob ==
    /\ procs.generate.pc = "start"
    /\ \E id \in {j \in JobIds : jobs[j] = JNull}, content \in JobContents, created \in BOOLEAN :
          LET jobData == [subtitleContent |-> content, settings |-> [tone |-> "formal"]]
          IN  /\ dbLog' = Append(dbLog, DbCall("createJob", id, created))
              /\ IF created
                 THEN /\ jobs' = createJob(id, jobData)
                      /\ procs' = [procs EXCEPT !.generate =
                                      Activation(BlueprintAgents[1], id, jobData, NoOutcome)]
                 ELSE /\ UNCHANGED jobs
                      /\ procs' = [procs EXCEPT !.generate =
                                      Activation("failed", "", jobData,
                                                 Throw(ApiError(<<"Failed to create job in database">>,
                                                                500, "DATABASE_ERROR",
                                                                [originalError |-> "MongoError"])))]
    /\ UNCHANGED <<config, globals, request, tasks, logs, attempts, rejections, pc, job, srtLines, batches, i, bstate, values,
                   allTranslatedBatches, translatedLines, outcome, overtaken, call>>

\* the agent call generateTranslationBlueprint awaits settles: the next one is
\* made (after assembleBlueprint, saveBlueprint is called), or the fault leaves
\* the function
GenerateAgentSettles ==
    /\ \E a \in DOMAIN BlueprintAgents :
          /\ procs.generate.pc = BlueprintAgents[a]
          /\ \E answered \in BOOLEAN, terms \in GlossarySizes :
                procs' = [procs EXCEPT !.generate =
                    IF ~answered
                    THEN [@ EXCEPT !.pc = "failed",
                                   !.result = Throw(ApiError(MalformedJsonMessage(BlueprintAgents[a]),
                                                             500, "AGENT_JSON_ERROR",
                                                             [responseText |-> Text(<<TokJunk>>)]))]
                    ELSE IF a < Len(BlueprintAgents)
                    THEN [@ EXCEPT !.pc = BlueprintAgents[a + 1]]
                    ELSE [@ EXCEPT !.pc = "saveBlueprint", !.result = Return(Blueprint(terms))]]
    /\ UNCHANGED <<config, globals, request, tasks, logs, attempts, rejections, jobs, pc, job, srtLines, batches, i, bstate, values,
                   allTranslatedBatches, translatedLines, outcome, overtaken, call, dbLog>>

\* a blueprint request that schedules the upsert whatever the glossary holds
HasGlossary_always(blueprint) == TRUE

\* blueprint.glossary?.length > 0
HasGlossary(blueprint) == blueprint.glossary > 0

UpsertTaskName(id) == <<"UpsertGlossaryVectors for Job ", id>>

\* the await of saveBlueprint ends: the update is done, the glossary upsert is
\* scheduled when there is a glossary (upsertGlossaryVectors is async: calling it
\* returns a promise, which fulfils) and the job id and the blueprint are
\* returned; or the driver rejects
GenerateSaveBlueprint ==
    /\ procs.generate.pc = "saveBlueprint"
    /\ \E stored \in BOOLEAN :
          /\ dbLog' = Append(dbLog, DbCall("saveBlueprint", procs.generate.jobId, stored))
          /\ IF stored
             THEN /\ jobs' = saveBlueprint(procs.generate.jobId, procs.generate.result.value)
                  /\ procs' = [procs EXCEPT !.generate.pc = "returned"]
                  /\ IF HasGlossary(procs.generate.result.value)
                     THEN LET r == runInBackground("fulfils",
                                                   UpsertTaskName(procs.generate.jobId))
                          IN  /\ tasks' = Append(tasks, r.task)
                              /\ logs' = logs \o r.logs
                     ELSE UNCHANGED <<tasks, logs>>
             ELSE /\ UNCHANGED <<jobs, tasks, logs>>
                  /\ procs' = [procs EXCEPT !.generate.pc = "failed",
                                            !.generate.result = Throw(TypeError(<<"MongoError">>))]
    /\ UNCHANGED <<config, globals, request, attempts, rejections, pc, job, srtLines, batches, i, bstate, values,
                   allTranslatedBatches, translatedLines, outcome, overtaken, call>>

\* executeTranslationChain is called with a job id and its await of getJobById
\* ends: not found, or the subtitle is parsed and the chunk loop begins
ExecuteFetchJob(r) ==
    /\ procs.execute[r].pc = "start"
    /\ \E id \in JobIds :
          LET found == getJobById(id)
              parsed == parseSrt(found.subtitleContent)
          IN  procs' = [procs EXCEPT !.execute[r] =
                  IF found = JNull
                  THEN Activation("failed", id, found,
                                  Throw(NotFoundError(<<"Job with ID ", id, " not found.">>)))
                  ELSE IF parsed.kind = "throw"
                  THEN Activation("failed", id, found, parsed)
                  ELSE Activation("translating", id, found, NoOutcome)]
          /\ dbLog' = Append(dbLog, DbCall("getJobById", id, TRUE))
    /\ UNCHANGED <<config, globals, request, tasks, logs, attempts, rejections, jobs, pc, job, srtLines, batches, i, bstate, values,
                   allTranslatedBatches, translatedLines, outcome, overtaken, call>>

\* the document a run reassembles when every stage kept its contract
TranslatedDocument(content) ==
    LET lines == parseSrt(content).value
    IN  toSrtString(finalSrtObjectOf(lines, GoodTranslations("phantomSync", lines)))

\* the chunk loop of a run as one step: a batch faults, or every chunk is
\* joined, the document is reassembled and saveFinalSrt is called
ExecuteTranslates(r) ==
    /\ procs.execute[r].pc = "translating"
    /\ \E translated \in BOOLEAN :
          procs' = [procs EXCEPT !.execute[r] =
              IF translated
              THEN [@ EXCEPT !.pc = "saving",
                             !.result = Return([finalSrt |-> TranslatedDocument(procs.execute[r].data.subtitleContent),
                                                syncSuggestions |-> <<>>])]
              ELSE [@ EXCEPT !.pc = "failed", !.result = Throw(GeminiApiError)]]
    /\ UNCHANGED <<config, globals, request, tasks, logs, attempts, rejections, jobs, pc, job, srtLines, batches, i, bstate, values,
                   allTranslatedBatches, translatedLines, outcome, overtaken, call, dbLog>>

\* the await of saveFinalSrt of a run ends
ExecuteSaveFinalSrt(r) ==
    /\ procs.execute[r].pc = "saving"
    /\ \E stored \in BOOLEAN :
          /\ dbLog' = Append(dbLog, DbCall("saveFinalSrt", procs.execute[r].jobId, stored))
          /\ IF stored
             THEN /\ jobs' = saveFinalSrt(procs.execute[r].jobId,
                                          procs.execute[r].result.value.finalSrt)
                  /\ procs' = [procs EXCEPT !.execute[r].pc = "done"]
             ELSE /\ UNCHANGED jobs
                  /\ procs' = [procs EXCEPT !.execute[r].pc = "failed",
                                            !.execute[r].result = Throw(TypeError(<<"MongoError">>))]
    /\ UNCHANGED <<config, globals, request, tasks, logs, attempts, rejections, pc, job, srtLines, batches, i, bstate, values,
                   allTranslatedBatches, translatedLines, outcome, overtaken, call>>

NextJob ==
    \/ GenerateCreateJob
    \/ GenerateAgentSettles
    \/ GenerateSaveBlueprint
    \/ \E r \in RunIds : ExecuteFetchJob(r)
    \/ \E r \in RunIds : ExecuteTranslates(r)
    \/ \E r \in RunIds : ExecuteSaveFinalSrt(r)
    \/ \E t \in DOMAIN tasks : TaskSettles(t)

SpecJob == InitJob /\ [][NextJob]_vars

\* one blueprint request on its own: nothing else works on the job it creates
NextBlueprint ==
    \/ GenerateCreateJob
    \/ GenerateAgentSettles
    \/ GenerateSaveBlueprint
    \/ \E t \in DOMAIN tasks : TaskSettles(t)

SpecBlueprint == InitJob /\ [][NextBlueprint]_vars

-----------------------------------------------------------------------------
(* The shutdown of the process (server.js) (SpecShutdown) *)

\* the events start() registers a handler for, each calling gracefulShutdown
ShutdownEvents == {"SIGINT", "SIGTERM", "unhandledRejection", "uncaughtException"}

\* the awaits of gracefulShutdown, in order
ShutdownSteps == <<"app.close", "closeMongoConnection", "closePineconeConnection">>

\* an activation of gracefulShutdown: the event it was called for, where it is
\* and the calls of it that have returned
Shutdown(signal, at, closed) == [signal |-> signal, pc |-> at, closed |-> closed]

InitShutdown ==
    /\ config = DefaultConfig
    /\ jobs = [j \in JobIds |-> JNull]
    /\ pc = "running"
    /\ job = Undefined
    /\ srtLines = <<>>
    /\ batches = <<>>
    /\ i = 0
    /\ bstate = <<>>
    /\ values = <<>>
    /\ allTranslatedBatches = <<>>
    /\ translatedLines = <<>>
    /\ outcome = NoOutcome
    /\ overtaken = FALSE
    /\ call = NoCall
    /\ dbLog = <<>>
    /\ procs = <<>>
    /\ request = Undefined
    /\ tasks = <<>>
    /\ logs = <<>>
    /\ attempts = <<>>
    /\ rejections = <<>>
    /\ globals = NoGlobals

\* a shutdown that does not remember that it has begun
MarkShuttingDown_forgets(g) == g

\* isShuttingDown = true
MarkShuttingDown(g) == [g EXCEPT !.isShuttingDown = TRUE]

\* process.exit(code)
Exit(code) ==
    /\ pc' = "exited"
    /\ outcome' = Return(code)

\* an event arrives and its handler calls gracefulShutdown, which returns at its
\* guard or runs up to its await of app.close()
ShutdownEvent ==
    /\ pc = "running"
    /\ Len(procs) < MaxEvents
    /\ \E signal \in ShutdownEvents :
          IF globals.isShuttingDown
          THEN /\ procs' = Append(procs, Shutdown(signal, "ignored", <<>>))
               /\ logs' = Append(logs, LogEntry("warn", signal,
                                   "Shutdown already in progress. Ignoring signal."))
               /\ UNCHANGED globals
          ELSE /\ globals' = MarkShuttingDown(globals)
               /\ procs' = Append(procs, Shutdown(signal, ShutdownSteps[1], <<>>))
               /\ logs' = Append(logs, LogEntry("warn", signal,
                                   "Starting graceful shutdown..."))
    /\ UNCHANGED <<config, attempts, rejections, jobs, pc, job, srtLines, batches, i, bstate,
                   values, allTranslatedBatches, translatedLines, outcome, overtaken, call,
                   dbLog, request, tasks>>

\* the call activation k of gracefulShutdown awaits ends: it returned and the
\* next one is made, or the process exits with 0 after the last; or it threw
\* and the catch block exits with 1
ShutdownStepEnds(k) ==
    /\ pc = "running"
    /\ \E n \in DOMAIN ShutdownSteps, ok \in BOOLEAN :
          /\ procs[k].pc = ShutdownSteps[n]
          /\ IF ~ok
             THEN /\ procs' = [procs EXCEPT ![k].pc = "exited"]
                  /\ logs' = Append(logs, LogEntry("error", procs[k].signal,
                                      "Error during graceful shutdown."))
                  /\ Exit(1)
             ELSE IF n < Len(ShutdownSteps)
             THEN /\ procs' = [procs EXCEPT ![k].pc = ShutdownSteps[n + 1],
                                            ![k].closed = Append(@, ShutdownSteps[n])]
                  /\ logs' = IF n = 1
                             THEN Append(logs, LogEntry("info", procs[k].signal,
                                                        "HTTP server closed."))
                             ELSE logs
                  /\ UNCHANGED <<pc, outcome>>
             ELSE /\ procs' = [procs EXCEPT ![k].pc = "exited",
                                            ![k].closed = Append(@, ShutdownSteps[n])]
                  /\ logs' = Append(logs, LogEntry("info", procs[k].signal,
                                      "Graceful shutdown complete."))
                  /\ Exit(0)
    /\ UNCHANGED <<config, globals, attempts, rejections, jobs, job, srtLines, batches, i,
                   bstate, values, allTranslatedBatches, translatedLines, overtaken, call,
                   dbLog, request, tasks>>

NextShutdown ==
    \/ ShutdownEvent
    \/ \E k \in DOMAIN procs : ShutdownStepEnds(k)

SpecShutdown == InitShutdown /\ [][NextShutdown]_vars

-----------------------------------------------------------------------------
(* The database client (config/database.js) (SpecMongo) *)

\* the n-th MongoClient constructed, and the handle client.db(dbName) gives
MongoClient(n) == [type |-> "MongoClient", id |-> n]
Db(mongoClient) == [type |-> "Db", client |-> mongoClient.id]

\* an activation of connectToMongo: where it is and the client it constructed
\* (none when it returned at its guard)
Connect(at, mongoClient) == [pc |-> at, client |-> mongoClient]

\* the clients constructed so far
Constructed == {k \in DOMAIN procs : procs[k].client # Undefined}

\* a connection has been established: a connectToMongo call has returned past
\* its await of client.connect()
Established == \E k \in DOMAIN procs : procs[k].pc = "returned"

\* if (dbInstance)
AlreadyConnected(g) == g.dbInstance # Undefined

\* connectToMongo is called and runs up to its await of client.connect(), or
\* returns at its guard
ConnectToMongo ==
    /\ pc = "running"
    /\ Len(procs) < MaxConnects
    /\ IF AlreadyConnected(globals)
       THEN /\ procs' = Append(procs, Connect("skipped", Undefined))
            /\ logs' = Append(logs, LogEntry("info", "connectToMongo",
                                "MongoDB connection already established. Skipping."))
            /\ UNCHANGED globals
       ELSE LET made == MongoClient(Cardinality(Constructed) + 1)
            IN  /\ globals' = [globals EXCEPT !.client = made]
                /\ procs' = Append(procs, Connect("connecting", made))
                /\ logs' = Append(logs, LogEntry("info", "connectToMongo",
                                    "Initializing MongoDB client..."))
    /\ UNCHANGED <<config, attempts, rejections, jobs, pc, job, srtLines, batches, i, bstate,
                   values, allTranslatedBatches, translatedLines, outcome, overtaken, call,
                   dbLog, request, tasks>>

\* the await of client.connect() of activation k ends: dbInstance is taken from
\* the module-level client, which is the last one constructed; or the connect
\* failed and the catch block exits
ConnectEnds(k) ==
    /\ pc = "running"
    /\ procs[k].pc = "connecting"
    /\ \E ok \in BOOLEAN :
          IF ok
          THEN /\ globals' = [globals EXCEPT !.dbInstance = Db(globals.client)]
               /\ procs' = [procs EXCEPT ![k].pc = "returned"]
               /\ logs' = Append(logs, LogEntry("info", "connectToMongo",
                                   "Successfully connected to MongoDB database"))
               /\ UNCHANGED <<pc, outcome>>
          ELSE /\ procs' = [procs EXCEPT ![k].pc = "exited"]
               /\ logs' = Append(logs, LogEntry("fatal", "connectToMongo",
                                   "Fatal Error: Failed to connect to MongoDB."))
               /\ Exit(1)
               /\ UNCHANGED globals
    /\ UNCHANGED <<config, attempts, rejections, jobs, job, srtLines, batches, i, bstate,
                   values, allTranslatedBatches, translatedLines, overtaken, call,
                   dbLog, request, tasks>>

\* getDb()
getDb(g) ==
    IF g.dbInstance = Undefined
    THEN Throw(ApiError(<<"Database not connected.">>, 503, "DB_UNAVAILABLE", EmptyContext))
    ELSE Return(g.dbInstance)

\* getDb is called; the history keeps what it gave and whether a connection had
\* been established by then
GetDb ==
    /\ pc = "running"
    /\ Len(dbLog) < MaxGets
    /\ dbLog' = Append(dbLog, [op |-> "getDb", res |-> getDb(globals),
                              established |-> Established])
    /\ UNCHANGED <<config, globals, attempts, rejections, jobs, pc, job, srtLines, batches,
                   i, bstate, values, allTranslatedBatches, translatedLines, outcome,
                   overtaken, call, procs, request, tasks, logs>>

NextMongo ==
    \/ ConnectToMongo
    \/ \E k \in DOMAIN procs : ConnectEnds(k)
    \/ GetDb

SpecMongo == InitShutdown /\ [][NextMongo]_vars

-----------------------------------------------------------------------------
(* Properties of the chain run (Spec) *)

\* the chunk a batch belongs to, counted from 0
ChunkIndex(b) == (b - 1) \div CONCURRENT_BATCHES

Running == {b \in DOMAIN bstate : bstate[b].st = "run"}

\* C1: the merged translated sequence is the batch outputs concatenated in
\* batch order B1,B2,...,Bk, whatever the order in which the batches finished:
\* the b-th merged batch is what batch b returned, and line k of batch b stands
\* at position (b-1)*BATCH_SIZE + k of the merged lines.
C1_MergedInBatchOrder ==
    /\ \A b \in DOMAIN allTranslatedBatches :
          bstate[b].st = "returned" /\ allTranslatedBatches[b] = bstate[b].ret
    /\ \A k \in DOMAIN values :
          values[k] = IF bstate[i + k].st = "returned" THEN bstate[i + k].ret ELSE Pending
    /\ pc \in {"saving", "done"} =>
          /\ Len(allTranslatedBatches) = Len(batches)
          /\ Len(translatedLines) = Len(srtLines)
          /\ \A b \in DOMAIN batches : \A k \in DOMAIN batches[b] :
                translatedLines[(b - 1) * BATCH_SIZE + k] = bstate[b].ret[k]

\* C1 witness: a run finished although a batch returned before an earlier batch
\* of its chunk
C1_Witness == pc = "done" /\ overtaken /\ Len(batches) > 1

\* C2: chunks are processed strictly in order: a batch has issued a stage call
\* only if every batch of every earlier chunk has returned its final-stage
\* output and the join of that chunk has merged it.
C2_ChunksInOrder ==
    \A b \in DOMAIN bstate : bstate[b].st # "idle" =>
        \A b2 \in DOMAIN bstate : ChunkIndex(b2) < ChunkIndex(b) =>
            /\ bstate[b2].st = "returned"
            /\ Len(bstate[b2].invoked) = 4
            /\ b2 <= Len(allTranslatedBatches)

\* C2 witness: a batch of the second chunk is running
C2_Witness == \E b \in Running : ChunkIndex(b) = 1

\* C3: at most 4 batches are in progress at the same time, and every chunk
\* holds at most 4 batches.
C3_ConcurrencyCeiling ==
    /\ Cardinality(Running) <= 4
    /\ Cardinality(chunk) <= 4
    /\ Len(values) <= 4
    /\ \A b \in DOMAIN bstate : bstate[b].st # "idle" => b <= i + 4

\* C3 witness: 4 batches run at once while a fifth waits for the next chunk
C3_Witness ==
    /\ Cardinality(Running) = 4
    /\ \E b \in DOMAIN bstate : bstate[b].st = "idle"

\* C4 as stated: the outcome of the run is not delivered while a batch of the
\* chunk is still running its stages.
C4_JoinWaitsForSiblings == pc = "failed" => Running = {}

\* C4 as amended: the join completes with success only when every batch of the
\* chunk has returned; when a batch faults, the join and the run fail in that
\* very step, whether or not sibling batches are still running.
C4_JoinFailsFast ==
    /\ \A b \in DOMAIN allTranslatedBatches : bstate[b].st = "returned"
    /\ pc \in {"saving", "done"} => \A b \in DOMAIN bstate : bstate[b].st = "returned"
    /\ (\E b \in DOMAIN bstate : bstate[b].st = "faulted") =>
          pc = "failed" /\ outcome.kind = "throw"

\* C4 witness: the run has failed with a batch's fault while a sibling batch is
\* still running
C4_Witness ==
    /\ pc = "failed"
    /\ \E b \in DOMAIN bstate : bstate[b].st = "faulted"
    /\ Running # {}

\* C5: a batch fault aborts the whole run: the run rejects with a fault, no
\* batch of a later chunk is started, no translated document is assembled,
\* returned or stored, and the chunk of the faulty batch is never merged.
C5_FaultAbortsRun ==
    \A b \in DOMAIN bstate : bstate[b].st = "faulted" =>
        /\ pc = "failed"
        /\ outcome.kind = "throw"
        /\ \A b2 \in DOMAIN bstate : ChunkIndex(b2) > ChunkIndex(b) => bstate[b2].st = "idle"
        /\ Len(allTranslatedBatches) < b
        /\ translatedLines = <<>>
        /\ jobs[jobId].finalSrt = Undefined

\* C5 witness: a batch of the first chunk has faulted, a sibling has returned,
\* and a later chunk exists
C5_Witness ==
    /\ \E b \in DOMAIN bstate : bstate[b].st = "faulted"
    /\ \E b \in DOMAIN bstate : bstate[b].st = "returned"
    /\ \E b \in DOMAIN bstate : ChunkIndex(b) = 1

\* every text of `translations` is what stage a makes of the line at its place
\* in the batch, or is empty
MadeBy(a, translations, batch) ==
    /\ Len(translations) = Len(batch)
    /\ \A k \in DOMAIN translations :
          \/ translations[k] = EmptyString
          \/ StageOf(translations[k]) = a /\ CueOf(translations[k]) = batch[k].sequence

\* C10: every batch invokes the four stages in the order transcreate, edit, qa,
\* pacing-sync, one after the other has returned; edit is handed transcreate's
\* output, qa edit's, pacing-sync qa's; the batch returns pacing-sync's output.
C10_StageOrder ==
    \A b \in DOMAIN bstate :
        LET s == bstate[b]
        IN  /\ s.invoked = SubSeq(<<"transcreateBatch", "editBatch", "qaBatch", "phantomSync">>,
                                  1, Len(s.invoked))
            /\ s.st = "idle" <=> s.invoked = <<>>
            /\ s.st = "run" =>
                  /\ s.stage = Len(s.invoked)
                  /\ s.stage = 2 => s.arg = s.transcreated
                  /\ s.stage = 3 => s.arg = s.edited
                  /\ s.stage = 4 => s.arg = s.qaApproved
                  /\ s.stage >= 2 => MadeBy(1, s.transcreated, batches[b])
                  /\ s.stage >= 3 => MadeBy(2, s.edited, batches[b])
                  /\ s.stage >= 4 => MadeBy(3, s.qaApproved, batches[b])
                  /\ s.stage >= 2 => MadeBy(s.stage - 1, s.arg, batches[b])
                  /\ s.stage <= 3 => s.qaApproved = <<>>
                  /\ s.stage <= 2 => s.edited = <<>>
                  /\ s.stage <= 1 => s.transcreated = <<>> /\ s.arg = <<>>
            /\ s.st = "returned" =>
                  /\ Len(s.invoked) = 4
                  /\ MadeBy(4, s.ret, batches[b])

\* C10 witness: a batch has returned after its four stages
C10_Witness ==
    \E b \in DOMAIN bstate : bstate[b].st = "returned" /\ Len(bstate[b].invoked) = 4

-----------------------------------------------------------------------------
(* Properties of one stage call (SpecStage) *)

\* the stage call has ended after the backend answered with a text
Answered == call.pc = "settled" /\ call.answers = 1

\* the JSON value in an answered text that is well-formed once trimmed and
\* unfenced, by the shape of the text alone
WellFormed(text) ==
    /\ text.type = "text"
    /\ \E k \in DOMAIN text.tokens :
          /\ text.tokens[k].t = "json"
          /\ \/ text.tokens = <<text.tokens[k]>>
             \/ text.tokens = <<TokFenceJson, TokNl, text.tokens[k], TokNl, TokFence>>
             \/ text.tokens = <<TokWs, TokFenceJson, text.tokens[k], TokFence, TokNl>>

\* the JSON value a well-formed text holds
ParsedValue(text) ==
    text.tokens[CHOOSE k \in DOMAIN text.tokens : text.tokens[k].t = "json"].v

\* two JavaScript values, of whatever types, are the same value
Same(a, b) == ToString(a) = ToString(b)

\* the translations of a parsed value are an array of exactly n elements
ExactArray(v, n) ==
    /\ v.type = "object"
    /\ v.translations.type = "array"
    /\ Len(v.translations.items) = n

IsFault(res, errorCode) ==
    /\ res.kind = "throw"
    /\ res.error.name = "ApiError"
    /\ res.error.errorCode = errorCode

\* C6: on a batch of L lines, a stage call whose parsed response does not hold
\* an array of exactly L translations raises the length-mismatch fault and
\* returns nothing, and every array a stage call returns has exactly L elements.
C6_MismatchAlwaysRaised ==
    /\ (call.pc = "settled" /\ call.res.kind = "return") =>
          Len(call.res.value) = Len(call.batch)
    /\ (Answered /\ WellFormed(call.responseText)
          /\ ~ExactArray(ParsedValue(call.responseText), Len(call.batch))) =>
          IsFault(call.res, "AGENT_LENGTH_MISMATCH")

C8_MalformedResponse ==
    (Answered /\ ~WellFormed(call.responseText)) =>
        /\ IsFault(call.res, "AGENT_JSON_ERROR")
        /\ call.res.error.message = <<"Agent [", call.agentName, "] returned malformed JSON.">>
        /\ call.res.error.context = [responseText |-> call.responseText]
        /\ call.errors = <<>>

\* C8 witness: the answer was JSON inside a fence whose opening is not tagged
\* json, so that the text cleaned differs from the text answered
C8_Witness ==
    /\ Answered
    /\ call.responseText.type = "text"
    /\ Len(call.responseText.tokens) = 5
    /\ call.responseText.tokens[1] = TokFence
    /\ IsFault(call.res, "AGENT_JSON_ERROR")

\* C9: a stage call calls callGemini once; once the backend has answered with a
\* text the stage call is over, whatever the text was, so a malformed-response
\* or length-mismatch fault is followed by no backend attempt; every attempt
\* but the last made was a transport failure.
C9_ContractFaultsNotRetried ==
    call.pc # "idle" =>
        /\ call.geminiCalls = 1
        /\ call.answers <= 1
        /\ call.answers = 1 => call.pc = "settled"
        /\ call.backendCalls =
              call.failures + call.answers + (IF call.pc = "attempt" THEN 1 ELSE 0)
        /\ call.backendCalls <= config.GEMINI_MAX_RETRIES \/ call.backendCalls = 0
        /\ Len(call.delays) = (IF call.pc = "settled" /\ call.answers = 0 /\ call.failures > 0
                               THEN call.failures - 1 ELSE call.failures)

\* C9 witness: after two transport failures the backend answered with a text
\* that broke the contract, and the call ended with three attempts made
C9_Witness ==
    /\ Answered
    /\ call.failures = 2
    /\ call.backendCalls = 3
    /\ \/ IsFault(call.res, "AGENT_LENGTH_MISMATCH")
       \/ IsFault(call.res, "AGENT_JSON_ERROR")

-----------------------------------------------------------------------------
(* Properties of a batch whose stage faults (Spec) *)

\* a faulted batch kept no output: nothing returned, nothing in the join's
\* result array, nothing merged
NoOutput(b) ==
    /\ bstate[b].ret = <<>>
    /\ b > Len(allTranslatedBatches)
    /\ (b - i) \in DOMAIN values => values[b - i] = Pending

\* C11: a fault in a stage of a batch aborts the batch at once: the stage call
\* a running batch awaits either faults, and then the batch is faulted for good
\* with the stages invoked so far and no output, or returns, and then the next
\* stage is invoked (or, after the fourth, the batch returns); a faulted batch
\* never invokes a stage again; a batch has an output only after four stages.
C11_StageFaultAbortsBatch ==
    /\ [](\A b \in DOMAIN bstate :
            /\ bstate[b].st = "faulted" =>
                  /\ NoOutput(b)
                  /\ bstate[b].stage \in 1..4
                  /\ bstate[b].invoked = SubSeq(Agents, 1, bstate[b].stage)
            /\ bstate[b].st = "returned" => bstate[b].invoked = Agents)
    /\ [][\A b \in DOMAIN bstate :
            /\ bstate[b].st = "faulted" => bstate'[b] = bstate[b]
            /\ (bstate[b].st = "run" /\ bstate'[b] # bstate[b]) =>
                  \/ /\ bstate'[b].st = "faulted"
                     /\ bstate'[b].stage = bstate[b].stage
                     /\ bstate'[b].invoked = bstate[b].invoked
                     /\ pc' = "failed"
                  \/ /\ bstate'[b].st = "run"
                     /\ bstate'[b].stage = bstate[b].stage + 1
                     /\ bstate'[b].invoked = Append(bstate[b].invoked, Agents[bstate[b].stage + 1])
                  \/ /\ bstate'[b].st = "returned"
                     /\ bstate[b].stage = 4
                     /\ bstate'[b].invoked = bstate[b].invoked]_vars

\* C11 witness: a batch faulted in its third stage, after two stages succeeded,
\* while a sibling went through all four
C11_Witness ==
    \E b, b2 \in DOMAIN bstate :
        /\ bstate[b].st = "faulted" /\ bstate[b].stage = 3
        /\ bstate[b].invoked = <<"transcreateBatch", "editBatch", "qaBatch">>
        /\ bstate[b2].st = "returned"

-----------------------------------------------------------------------------
(* Properties of the job record during a chain run (Spec) *)

\* the settled calls of a repository method
CallsOf(op) == {k \in DOMAIN dbLog : dbLog[k].op = op}

\* the job record is as the run found it
RecordUntouched == jobs[jobId] = job

\* the run ended with the store's rejection of the final save
SaveRejected ==
    /\ pc = "failed"
    /\ outcome.error.name = "TypeError"
    /\ outcome.error.message = <<"MongoError">>

\* C12 as stated: whenever the run has ended with a fault, saveFinalSrt was
\* never called and the job record is as it was before the run.
C12_FaultNeverSaves ==
    pc = "failed" => CallsOf("saveFinalSrt") = {} /\ RecordUntouched

\* C12 as amended: when the run ended with a fault raised before the final save
\* (missing job, subtitle parse failure, stage or batch fault), saveFinalSrt was
\* never called; the one other fault is the rejection of the saveFinalSrt call
\* itself, made once after every batch returned; in both cases the job record,
\* status and final text included, is as it was before the run.
C12_FaultLeavesRecord ==
    pc = "failed" =>
        /\ RecordUntouched
        /\ job # JNull => job.status = "pending_approval" /\ job.finalSrt = Undefined
        /\ IF SaveRejected
           THEN /\ Cardinality(CallsOf("saveFinalSrt")) = 1
                /\ \A b \in DOMAIN bstate : bstate[b].st = "returned"
           ELSE CallsOf("saveFinalSrt") = {}

\* C12 witness: the run ended with a batch fault after another batch returned,
\* on a job that exists
C12_Witness ==
    /\ pc = "failed"
    /\ ~SaveRejected
    /\ job # JNull
    /\ \E b \in DOMAIN bstate : bstate[b].st = "faulted"
    /\ \E b \in DOMAIN bstate : bstate[b].st = "returned"

\* C13: when the store holds no job under the id, the run raises the not-found
\* fault as soon as the lookup has answered: the job was looked up exactly
\* once, no subtitle was parsed, no batch was made, no stage was called and
\* nothing was written to the store.
C13_NotFound ==
    (jobs[jobId] = JNull /\ pc # "start") =>
        /\ pc = "failed"
        /\ outcome.kind = "throw"
        /\ outcome.error.name = "NotFoundError"
        /\ outcome.error.errorCode = "NOT_FOUND"
        /\ outcome.error.httpStatus = 404
        /\ outcome.error.message = <<"Job with ID ", jobId, " not found.">>
        /\ dbLog = <<DbCall("getJobById", jobId, TRUE)>>
        /\ srtLines = <<>> /\ batches = <<>>
        /\ bstate = <<>> /\ allTranslatedBatches = <<>> /\ translatedLines = <<>>

\* C13 witness: a run on a missing job has ended
C13_Witness == jobs[jobId] = JNull /\ job = JNull /\ pc = "failed"

-----------------------------------------------------------------------------
(* Properties of segmentation (SpecSegment) *)

\* ceil(n / BATCH_SIZE)
CeilBatches(n) == (n + BATCH_SIZE - 1) \div BATCH_SIZE

\* C14: a document of N lines (N >= 0) is segmented into exactly
\* ceil(N/BATCH_SIZE) batches whose concatenation in order is the original line
\* sequence; while the loop runs, the batches made so far concatenate to the
\* lines before index i.
C14_SegmentationCount ==
    /\ pc = "segmenting" =>
          /\ Flat(batches) = SubSeq(srtLines, 1, Min(i, Len(srtLines)))
          /\ Len(batches) = CeilBatches(Min(i, Len(srtLines)))
    /\ pc = "segmented" =>
          /\ Len(batches) = CeilBatches(Len(srtLines))
          /\ Flat(batches) = srtLines
          /\ batches = Segment(srtLines)

\* C14 witness: a document whose length is not a multiple of BATCH_SIZE, and
\* one whose length is, have been segmented
C14_Witness ==
    /\ pc = "segmented"
    /\ Len(srtLines) \in {2 * BATCH_SIZE, 2 * BATCH_SIZE + 7}
    /\ Len(batches) = CeilBatches(Len(srtLines))

\* the places (batch, index in the batch) where line k of the document stands
PlacesOf(k) ==
    {<<b, j>> \in (DOMAIN batches) \X (1..BATCH_SIZE) :
        j <= Len(batches[b]) /\ batches[b][j] = srtLines[k]}

\* C15: every batch is a non-empty contiguous slice of at most BATCH_SIZE lines,
\* batch b starting at line (b-1)*BATCH_SIZE + 1; every batch but possibly the
\* last has exactly BATCH_SIZE lines; every line of the document stands in
\* exactly one batch, once.
C15_BatchesTile ==
    /\ \A b \in DOMAIN batches :
          /\ Len(batches[b]) \in 1..BATCH_SIZE
          /\ b < Len(batches) => Len(batches[b]) = BATCH_SIZE
          /\ \A j \in DOMAIN batches[b] : batches[b][j] = srtLines[(b - 1) * BATCH_SIZE + j]
    /\ pc = "segmented" =>
          \A k \in DOMAIN srtLines :
              PlacesOf(k) = {<<((k - 1) \div BATCH_SIZE) + 1, ((k - 1) % BATCH_SIZE) + 1>>}

\* C15 witness: a segmented document whose last batch is shorter than the others
C15_Witness ==
    /\ pc = "segmented"
    /\ Len(batches) = 3
    /\ Len(batches[3]) = 7
    /\ Len(batches[1]) = BATCH_SIZE /\ Len(batches[2]) = BATCH_SIZE

-----------------------------------------------------------------------------
(* Properties of reassembly (Spec) *)

-----------------------------------------------------------------------------
(* Properties of reassembly on arbitrary translated arrays (SpecReassemble) *)

Reassembled == pc = "reassembled"

\* the translated array has a value at position k
HasValueAt(k) == k <= Len(translatedLines) /\ translatedLines[k] # UndefinedText

\* C17 as stated: the text of output line k is the original text when the
\* translated array has no value at k (index out of range or undefined), and
\* the translated value at k otherwise.
C17_FallbackOnUndefinedOnly ==
    Reassembled =>
        \A k \in DOMAIN srtLines :
            outcome.value.finalSrt[k].text =
                IF HasValueAt(k) THEN translatedLines[k] ELSE srtLines[k].text

\* C17 as amended: the text of output line k is the original text when the
\* translated array has no value at k (index out of range or undefined) or an
\* empty one, and the translated value at k otherwise; each position is decided
\* by its own value alone, and the output has one line per original line.
C17_FallbackOnFalsy ==
    Reassembled =>
        /\ Len(outcome.value.finalSrt) = Len(srtLines)
        /\ \A k \in DOMAIN srtLines :
              /\ outcome.value.finalSrt[k].id = srtLines[k].sequence
              /\ outcome.value.finalSrt[k].text =
                    IF HasValueAt(k) /\ translatedLines[k] # EmptyString
                    THEN translatedLines[k]
                    ELSE srtLines[k].text

\* C17 witness: of three lines the second has an undefined translation and the
\* third lies past the end of the translated array; the first is translated
C17_Witness ==
    /\ Reassembled
    /\ Len(srtLines) = 3
    /\ Len(translatedLines) = 2
    /\ translatedLines[1] = Translation(4, 1)
    /\ translatedLines[2] = UndefinedText
    /\ outcome.value.finalSrt[1].text = Translation(4, 1)
    /\ outcome.value.finalSrt[2].text = srtLines[2].text
    /\ outcome.value.finalSrt[3].text = srtLines[3].text

-----------------------------------------------------------------------------
(* Properties of the job record under the request handlers (SpecJob) *)

\* the place of a status in processing_blueprint, pending_approval, complete
StatusRank(status) ==
    CASE status = "processing_blueprint" -> 1
      [] status = "pending_approval" -> 2
      [] status = "complete" -> 3

\* C18: the status of a job never moves back along processing_blueprint,
\* pending_approval, complete, whatever the interleaving of the store writes of
\* blueprint generation and of chain runs on that job.
C18_StatusMonotonic ==
    [][\A j \in JobIds :
          (jobs[j] # JNull /\ jobs'[j] # JNull) =>
              StatusRank(jobs'[j].status) >= StatusRank(jobs[j].status)]_vars

\* the fulfilled calls of a repository method on a job
AppliedTo(j, ops) ==
    {k \in DOMAIN dbLog : dbLog[k].jobId = j /\ dbLog[k].ok /\ dbLog[k].op \in ops}

\* C19: for every job the final text is set at most once, and the job record is
\* updated at most twice in all (one blueprint save, one final save), however
\* often the chain is executed for the job id.
C19_FinalTextSetOnce ==
    \A j \in JobIds :
        /\ Cardinality(AppliedTo(j, {"saveFinalSrt"})) <= 1
        /\ Cardinality(AppliedTo(j, {"saveBlueprint", "saveFinalSrt"})) <= 2

-----------------------------------------------------------------------------
(* Properties of the retry loop of callGemini (SpecStage) *)

\* C20: with GEMINI_MAX_RETRIES = R >= 1, callGemini makes at most R backend
\* attempts, numbered 1, 2, ...; it makes an attempt only after every earlier
\* one failed; once an attempt answers, its text is what callGemini returns and
\* no attempt follows; it raises GEMINI_API_ERROR (503) exactly when R attempts
\* were made and all of them failed.
C20_RetryCeiling ==
    (call.pc # "idle" /\ config.GEMINI_MAX_RETRIES >= 1) =>
        /\ call.backendCalls \in 1..config.GEMINI_MAX_RETRIES
        /\ call.attempt = call.backendCalls
        /\ call.pc = "attempt" => call.failures = call.backendCalls - 1 /\ call.answers = 0
        /\ call.pc = "backoff" =>
              /\ call.failures = call.backendCalls /\ call.answers = 0
              /\ call.backendCalls < config.GEMINI_MAX_RETRIES
        /\ call.pc = "settled" =>
              /\ call.failures + call.answers = call.backendCalls
              /\ call.answers \in {0, 1}
              /\ call.answers = 1 =>
                    /\ call.responseText.type = "text"
                    /\ ~IsFault(call.res, "GEMINI_API_ERROR")
              /\ call.answers = 0 =>
                    /\ call.failures = config.GEMINI_MAX_RETRIES
                    /\ IsFault(call.res, "GEMINI_API_ERROR")
                    /\ call.res.error.httpStatus = 503
                    /\ call.res.error.message =
                          <<"Gemini API call failed after ",
                            ToString(config.GEMINI_MAX_RETRIES), " attempts.">>

\* C20 witness: with a ceiling of 3, three attempts failed and the call raised
\* the backend-failure fault
C20_Witness ==
    /\ call.pc = "settled"
    /\ config.GEMINI_MAX_RETRIES = 3
    /\ call.failures = 3 /\ call.backendCalls = 3 /\ call.answers = 0
    /\ IsFault(call.res, "GEMINI_API_ERROR")

-----------------------------------------------------------------------------
(* Properties of the backoff of callGemini (SpecStage) *)

\* C21: the waits of one callGemini call are the base wait after the first
\* failed attempt and twice the wait before after every later one (so the wait
\* after failed attempt k is GEMINI_BACKOFF_MS * 2^(k-1)); there is one wait
\* per failed attempt but the final one, attempt GEMINI_MAX_RETRIES, after
\* which the call raises at once; no wait follows an answer.
C21_ExponentialBackoff ==
    call.pc # "idle" =>
        /\ Len(call.delays) > 0 => call.delays[1] = config.GEMINI_BACKOFF_MS
        /\ \A k \in 2..Len(call.delays) : call.delays[k] = 2 * call.delays[k - 1]
        /\ Len(call.delays) =
              (IF call.pc = "settled" /\ IsFault(call.res, "GEMINI_API_ERROR")
               THEN call.failures - 1 ELSE call.failures)
        /\ Len(call.delays) < config.GEMINI_MAX_RETRIES \/ call.delays = <<>>
        /\ call.pc = "backoff" => Len(call.delays) = call.attempt
        /\ IsFault(call.res, "GEMINI_API_ERROR") =>
              /\ call.pc = "settled"
              /\ call.failures = config.GEMINI_MAX_RETRIES

\* C21 witness: with a ceiling of 4 and the default base wait, three attempts
\* failed and the call waited 1000, 2000 and 4000 ms
C21_Witness ==
    /\ call.pc = "backoff"
    /\ config.GEMINI_MAX_RETRIES = 4
    /\ call.delays = <<DEFAULT_GEMINI_BACKOFF_MS, 2000, 4000>>

-----------------------------------------------------------------------------
(* Properties of the shared context of a run (Spec) *)

\* the batches a step leaves in another state than it found them
Written == {b \in DOMAIN bstate : b \in DOMAIN bstate' /\ bstate'[b] # bstate[b]}

\* C22: no step of a run changes the blueprint or the settings of the request;
\* every transcreate, edit and QA call of every batch was handed the confirmed
\* blueprint as the request holds it (and transcreate the tone of the
\* settings); a step that resumes a running batch writes the variables of that
\* batch only (its slot of the join's result aside, which no batch reads), and
\* leaves every other running batch and the lines of every batch as they were.
C22_SharedContextReadOnly ==
    /\ [](\A b \in DOMAIN bstate :
            /\ Len(bstate[b].context) = Len(bstate[b].invoked)
            /\ \A k \in DOMAIN bstate[b].context :
                  /\ k \in 1..3 =>
                        bstate[b].context[k].blueprint = request.confirmedBlueprint
                  /\ k = 1 => bstate[b].context[k].tone = request.settings.tone)
    /\ [][/\ request' = request
          /\ pc = "join" =>
                /\ batches' = batches
                /\ \A b \in Written :
                      bstate[b].st = "run" =>
                          \A b2 \in DOMAIN bstate \ {b} :
                              bstate[b2].st = "run" => bstate'[b2] = bstate[b2]]_vars

\* C22 witness: two batches of one chunk run side by side, the first at its
\* fourth stage and the second at its second
C22_Witness ==
    /\ pc = "join"
    /\ Len(bstate) >= 2
    /\ bstate[1].st = "run" /\ bstate[1].stage = 4 /\ Len(bstate[1].context) = 4
    /\ bstate[2].st = "run" /\ bstate[2].stage = 2
    /\ bstate[2].context[2].blueprint = Blueprint(1)

-----------------------------------------------------------------------------
(* Properties of background tasks (SpecBackground) *)

\* the error entries the logger holds for a task
ErrorEntries(t) ==
    {k \in DOMAIN logs : logs[k].level = "error" /\ logs[k].task = tasks[t].name}

\* C23: whatever the task function does (fulfil, reject later, throw at once),
\* runInBackground returns normally to its caller, which therefore never fails
\* because of a task, and it returns with the task still unsettled; every task
\* that failed has an error entry in the log.
C23_BackgroundNeverFails ==
    /\ outcome.kind # "throw"
    /\ \A t \in DOMAIN tasks :
          /\ tasks[t].st \in {"rejected", "threw"} => ErrorEntries(t) # {}
          /\ tasks[t].st \in {"fulfilled", "willFulfil", "willReject"} =>
                ErrorEntries(t) = {}

-----------------------------------------------------------------------------
(* Properties of a run with a stage call that does not return (Spec) *)

-----------------------------------------------------------------------------
(* Properties of the pacing-sync stage (SpecPacing) *)

\* C25: in what the pacing-sync stage returns, a line whose reviewed text is at
\* or under 22 characters per second of its duration stands verbatim, and a
\* line over that pace stands shorter and carries the compression annotation.
C25_PacingDecisionApplied ==
    (call.pc = "settled" /\ call.res.kind = "return") =>
        \A k \in DOMAIN call.batch :
            IF OverThreshold(call.batch[k], call.qaTranslations[k])
            THEN /\ call.res.value[k].chars < call.qaTranslations[k].chars
                 /\ call.res.value[k].marked
            ELSE call.res.value[k] = call.qaTranslations[k]

-----------------------------------------------------------------------------
(* Properties of a run that succeeds (Spec) *)

\* the stage calls made so far, as (batch, position) pairs
StageCalls == {c \in (DOMAIN bstate) \X (1..4) : c[2] <= Len(bstate[c[1]].invoked)}

\* C26: when a run over k batches has returned, every batch has called each of
\* transcreateBatch, editBatch, qaBatch and phantomSync exactly once (4k stage
\* calls in all), saveFinalSrt has been called exactly once, as the last call
\* of the run, and the job record holds the status complete and the document
\* returned; whenever saveFinalSrt has been called, every stage call of every
\* batch had returned before.
C26_SuccessfulRun ==
    /\ outcome.kind = "return" =>
          /\ Len(bstate) = Len(batches)
          /\ \A b \in DOMAIN bstate :
                /\ bstate[b].st = "returned"
                /\ \A a \in DOMAIN Agents :
                      Cardinality({k \in DOMAIN bstate[b].invoked :
                                      bstate[b].invoked[k] = Agents[a]}) = 1
          /\ Cardinality(StageCalls) = 4 * Len(batches)
          /\ Cardinality(CallsOf("saveFinalSrt")) = 1
          /\ dbLog[Len(dbLog)] = DbCall("saveFinalSrt", jobId, TRUE)
          /\ jobs[jobId].status = "complete"
          /\ jobs[jobId].finalSrt = outcome.value.finalSrt
    /\ (pc = "saving" \/ CallsOf("saveFinalSrt") # {}) =>
          \A b \in DOMAIN bstate : bstate[b].st = "returned" /\ Len(bstate[b].invoked) = 4

\* C26 witness: a run over five batches, in two chunks, has returned
C26_Witness ==
    /\ outcome.kind = "return"
    /\ Len(batches) = 5
    /\ Cardinality(StageCalls) = 20
    /\ jobs[jobId].status = "complete"

-----------------------------------------------------------------------------
(* Properties of the outcomes of a stage call (SpecStage) *)

OperationalFaults == {"GEMINI_API_ERROR", "AGENT_JSON_ERROR", "AGENT_LENGTH_MISMATCH"}

\* C27: a stage call that has ended has returned an array of exactly as many
\* elements as the batch has lines, or has raised an operational fault: the
\* backend failure, the malformed-response or the length-mismatch fault;
\* whatever the backend answered, it has raised no other error.
C27_OutcomesAreOperational ==
    call.pc = "settled" =>
        \/ /\ call.res.kind = "return"
           /\ Len(call.res.value) = Len(call.batch)
        \/ /\ call.res.kind = "throw"
           /\ call.res.error.name = "ApiError"
           /\ call.res.error.isOperational
           /\ call.res.error.errorCode \in OperationalFaults

-----------------------------------------------------------------------------
(* Properties of callGemini under every retry ceiling (SpecStage) *)

\* C28: whatever GEMINI_MAX_RETRIES is, a callGemini call makes at least one
\* backend attempt, and when it has ended it has returned the text an attempt
\* answered or has raised the backend-failure fault after a failed attempt; it
\* has not returned undefined.
C28_CallGeminiNeverEmpty ==
    /\ call.pc # "idle" => call.backendCalls >= 1
    /\ call.pc = "settled" =>
          \/ /\ call.answers = 1
             /\ call.responseText.type = "text"
          \/ /\ call.answers = 0
             /\ call.failures >= 1
             /\ IsFault(call.res, "GEMINI_API_ERROR")

-----------------------------------------------------------------------------
(* Termination of a run (SpecRunFair) *)

\* C29: when every backend attempt, timer and store call that is awaited ends,
\* a run comes to its end: it returns the final document or raises a fault;
\* and on the way no batch has more than GEMINI_MAX_RETRIES attempts made for
\* one stage call, nor more than 4 * GEMINI_MAX_RETRIES in all.
C29_RunTerminates ==
    /\ <>(pc \in {"done", "failed"} /\ outcome.kind \in {"return", "throw"})
    /\ [](\A b \in DOMAIN attempts :
            /\ attempts[b].attempt <= config.GEMINI_MAX_RETRIES
            /\ attempts[b].made <= bstate[b].stage * config.GEMINI_MAX_RETRIES
            /\ attempts[b].made <= 4 * config.GEMINI_MAX_RETRIES)

\* C29 witness: a run has returned after a batch needed all of its twelve
\* attempts, the last of every stage call answering
C29_Witness ==
    /\ pc = "done"
    /\ config.GEMINI_MAX_RETRIES = 3
    /\ \E b \in DOMAIN attempts : attempts[b].made = 12

-----------------------------------------------------------------------------
(* Several batches of one chunk fault (SpecFaults) *)

\* C30: when batches of a chunk fault, the run raises one fault to its caller,
\* the fault of the batch that faulted first in time, as the stage raised it;
\* the later faults change nothing of what the caller gets, and no rejection of
\* a batch goes to the unhandledRejection handler.
C30_FirstFaultInTimeSurfaces ==
    /\ [](rejections # <<>> =>
            /\ pc = "failed"
            /\ outcome.kind = "throw"
            /\ Same(outcome.error, rejections[1].reason)
            /\ \A k \in DOMAIN rejections : ~rejections[k].unhandled)
    /\ [][outcome.kind = "throw" => Same(outcome', outcome)]_vars

\* two batches of a chunk have faulted with different faults, the later one in
\* batch order first, and the caller has got the fault of that one
C30_Witness ==
    /\ Len(rejections) = 2
    /\ rejections[1].batch = 2
    /\ rejections[2].batch = 1
    /\ ~Same(rejections[1].reason, rejections[2].reason)
    /\ Same(outcome.error, rejections[1].reason)

-----------------------------------------------------------------------------
(* A document of zero lines (Spec) *)

\* the job of the run was found and its subtitle content, which is not blank,
\* parses to zero lines
ZeroLines ==
    /\ pc # "start"
    /\ job # JNull
    /\ ~job.subtitleContent.blank
    /\ job.subtitleContent.cues = 0

\* C31: when the stored subtitle content parses to zero lines, the run forms no
\* batch and no chunk and makes no stage call: from the lookup of the job it
\* goes straight to saveFinalSrt, and when that call has returned the job holds
\* the empty final document and the status complete, and the run has returned
\* that document; the only fault such a run can raise is that of the store.
C31_EmptyDocument ==
    ZeroLines =>
        /\ srtLines = <<>>
        /\ batches = <<>>
        /\ bstate = <<>>
        /\ StageCalls = {}
        /\ i = 0
        /\ values = <<>>
        /\ allTranslatedBatches = <<>>
        /\ pc \in {"saving", "done", "failed"}
        /\ pc = "saving" => CallsOf("saveFinalSrt") = {}
        /\ pc = "done" =>
              /\ dbLog = <<DbCall("getJobById", jobId, TRUE),
                           DbCall("saveFinalSrt", jobId, TRUE)>>
              /\ jobs[jobId].status = "complete"
              /\ jobs[jobId].finalSrt = toSrtString(<<>>)
              /\ outcome.kind = "return"
              /\ outcome.value.finalSrt = toSrtString(<<>>)
        /\ pc = "failed" =>
              /\ dbLog[Len(dbLog)] = DbCall("saveFinalSrt", jobId, FALSE)
              /\ jobs[jobId].status # "complete"

\* a run over a document of zero lines has returned and the job is complete
C31_Witness ==
    /\ ZeroLines
    /\ pc = "done"
    /\ jobs[jobId].status = "complete"
    /\ Len(dbLog) = 2

-----------------------------------------------------------------------------
(* The steps of a blueprint request (SpecBlueprint) *)

\* where generateTranslationBlueprint is, in the order it goes through
BlueprintSteps ==
    <<"start", "extractKeywords", "groundTranslations", "assembleBlueprint",
      "saveBlueprint", "returned">>

\* an agent step of the blueprint request has faulted
AgentStepFaulted ==
    /\ procs.generate.pc = "failed"
    /\ IsFault(procs.generate.result, "AGENT_JSON_ERROR")

\* C32: generateTranslationBlueprint goes through createJob, extractKeywords,
\* groundTranslations, assembleBlueprint and saveBlueprint in this order, and
\* schedules the glossary upsert only when the glossary is not empty; when it
\* has returned, the job holds the status pending_approval and the blueprint
\* returned; when an agent step has faulted, saveBlueprint is not called, no
\* upsert is scheduled and the job created stays in processing_blueprint.
C32_BlueprintSteps ==
    /\ [][procs'.generate.pc # procs.generate.pc =>
             \/ procs'.generate.pc = "failed"
             \/ \E k \in 1..(Len(BlueprintSteps) - 1) :
                   /\ procs.generate.pc = BlueprintSteps[k]
                   /\ procs'.generate.pc = BlueprintSteps[k + 1]]_vars
    /\ [](LET g == procs.generate
          IN  /\ g.pc \notin {"start", "failed"} =>
                    /\ dbLog[1] = DbCall("createJob", g.jobId, TRUE)
                    /\ jobs[g.jobId] # JNull
              /\ g.pc \notin {"returned", "failed"} =>
                    /\ CallsOf("saveBlueprint") = {}
                    /\ CallsOf("createJob") \subseteq {1}
              /\ tasks # <<>> => g.pc = "returned" /\ Len(tasks) = 1
              /\ g.pc = "returned" =>
                    /\ dbLog = <<DbCall("createJob", g.jobId, TRUE),
                                 DbCall("saveBlueprint", g.jobId, TRUE)>>
                    /\ jobs[g.jobId].status = "pending_approval"
                    /\ jobs[g.jobId].blueprint = g.result.value
                    /\ (tasks # <<>>) = (g.result.value.glossary > 0)
                    /\ tasks # <<>> => tasks[1].name = UpsertTaskName(g.jobId)
              /\ AgentStepFaulted =>
                    /\ dbLog = <<DbCall("createJob", g.jobId, TRUE)>>
                    /\ tasks = <<>>
                    /\ logs = <<>>
                    /\ jobs[g.jobId].status = "processing_blueprint"
                    /\ jobs[g.jobId].blueprint = Undefined)

\* a blueprint request has returned a blueprint with a glossary and the upsert
\* it scheduled has been carried out
C32_Witness ==
    /\ procs.generate.pc = "returned"
    /\ procs.generate.result.value.glossary = 2
    /\ jobs[procs.generate.jobId].status = "pending_approval"
    /\ Len(tasks) = 1
    /\ tasks[1].st = "fulfilled"

-----------------------------------------------------------------------------
(* The shutdown sequence (SpecShutdown) *)

\* the activations of gracefulShutdown that went past its guard
ShuttingDown == {k \in DOMAIN procs : procs[k].pc # "ignored"}

\* C33: the shutdown sequence runs at most once in a process: whatever events
\* arrive and however they interleave with the sequence, only the first one
\* goes past the guard, closes the HTTP server, then the database connection,
\* then the vector store connection, and exits; every later event is ignored.
C33_ShutdownOnce ==
    /\ Cardinality(ShuttingDown) <= 1
    /\ ShuttingDown \subseteq {1}
    /\ procs # <<>> => globals.isShuttingDown /\ ShuttingDown = {1}
    /\ \A k \in DOMAIN procs :
          /\ Len(procs[k].closed) <= Len(ShutdownSteps)
          /\ \A n \in DOMAIN procs[k].closed : procs[k].closed[n] = ShutdownSteps[n]
          /\ k > 1 => procs[k] = Shutdown(procs[k].signal, "ignored", <<>>)
    /\ pc = "exited" =>
          /\ procs[1].pc = "exited"
          /\ outcome.value = 0 <=> procs[1].closed = ShutdownSteps

\* three events have arrived, the later two while the shutdown the first one
\* began was under way, and the process has exited with 0
C33_Witness ==
    /\ pc = "exited"
    /\ outcome.value = 0
    /\ Len(procs) = 3
    /\ procs[1].signal = "SIGTERM"
    /\ procs[2].signal = "SIGINT"
    /\ procs[3].signal = "uncaughtException"
    /\ procs[1].closed = ShutdownSteps

-----------------------------------------------------------------------------
(* The database handle (SpecMongo) *)

\* the getDb calls that returned a handle
Handed == {k \in DOMAIN dbLog : dbLog[k].res.kind = "return"}

\* C34: the database handle is one shared resource: however many times
\* connectToMongo is called, also while a connection attempt is still pending,
\* at most one client is constructed and connected; getDb raises the
\* DB_UNAVAILABLE fault whenever no connection had been established, and
\* otherwise always returns the same handle.
C34_SingleHandle ==
    /\ Cardinality(Constructed) <= 1
    /\ \A k \in DOMAIN dbLog :
          IF dbLog[k].established
          THEN dbLog[k].res.kind = "return"
          ELSE IsFault(dbLog[k].res, "DB_UNAVAILABLE")
    /\ \A k1, k2 \in Handed : dbLog[k1].res.value = dbLog[k2].res.value

====
